---- MODULE Spec2Model ----
(***************************************************************************)
(* A model of the RustyBGP daemon (daemon/src/main.rs): the shared RIB     *)
(* (Table), the per-peer session task (handle_session), the peer registry   *)
(* (Global) and the connection orchestrator (main loop).                    *)
(*                                                                          *)
(* Atomicity: one action is one critical section of a task (the code        *)
(* between two lock acquisitions), since every other task can run between   *)
(* two sections.  Consecutive sections of one handler that take the same    *)
(* lock and only touch the task's own peer record are taken as one step.    *)
(***************************************************************************)
EXTENDS Integers, Sequences, FiniteSets, TLC

VARIABLES
    master,                       \* Table.master: Family -> (Nlri -> entry)
    disable_best_path_selection,  \* Table.disable_best_path_selection
    active_peers,                 \* Table.active_peers: addr -> (tx, source)
    as_number,                    \* Global.as_number
    peers,                        \* Global.peers: addr -> Peer
    peer_group,                   \* Global.peer_group: name -> PeerGroup
    active_tx,                    \* the active_tx channel: addresses not yet received
    expirations,                  \* Streamer.expirations: addr -> pending entries
    sessions,                     \* the spawned handle_session tasks, by id
    overflow_checks,              \* the build: "on" (a u64 overflow panics), "off" (it
                                  \* wraps), "undetermined" until the first overflow
    asn,                          \* main's local asn: --as-number, 0 when not given
    id,                           \* Global.id, the router id
    init_tx,                      \* the start barrier: the tasks waiting at it
    main_pc,                      \* where main is: "init", "barrier" or "loop"
    attempts,                     \* per address, the Active events surfaced and the TCP
                                  \* connects made for them (history)
    list_task,                    \* the task list_path has spawned, its responses and
                                  \* its bounded response channel
    events,                       \* inputs taken so far (bounds the model)
    last                          \* what the last step did (history variable)

vars == <<master, disable_best_path_selection, active_peers, as_number, peers,
          peer_group, active_tx, expirations, sessions, overflow_checks, asn, id,
          init_tx, main_pc, attempts, list_task, events, last>>
mainVars == <<asn, id, init_tx, main_pc>>
tableVars == <<master, active_peers>>
globalVars == <<as_number, peers, peer_group, active_tx>>

(***************************************************************************)
(* Bounds of the model.                                                     *)
(***************************************************************************)
MaxEvents == 3        \* messages received from peers plus add_path/delete_path calls
SessionIds == {1, 2}  \* the session tasks the model follows
MaxConnects == 2      \* failed TCP connects per address
MaxSegments == 2      \* segments of a stored AS path

(***************************************************************************)
(* Values.                                                                  *)
(***************************************************************************)
UNSPECIFIED == "0.0.0.0"          \* Ipv4Addr::UNSPECIFIED, the local source
Families == {"Ipv4Uc", "Ipv6Uc"}

\* the variants of bgp::Attribute the getters match on, and the segment
\* type, by name
ORIGIN == "Origin"
AS_PATH == "AsPath"
MULTI_EXIT_DESC == "MultiExitDesc"
LOCAL_PREF == "LocalPref"
TYPE_SEQ == "TYPE_SEQ"
TYPE_SET == "TYPE_SET"

Origin(o) == [attr |-> ORIGIN, origin |-> o]
AsPath(segs) == [attr |-> AS_PATH, segments |-> segs]
MultiExitDesc(d) == [attr |-> MULTI_EXIT_DESC, descriptor |-> d]
LocalPref(p) == [attr |-> LOCAL_PREF, preference |-> p]
Segment(t, numbers) == [segment_type |-> t, number |-> numbers]

\* PathAttr: `entry` is the attribute list; `arc` is the identity of the
\* shared allocation (Arc<PathAttr>), named by the address of the source
\* that created it: one Arc is made per received UPDATE / add_path call.
PathAttr(entry, creator) == [entry |-> entry, arc |-> creator]

Source(address, ibgp, local_as, local_addr) ==
    [address |-> address, ibgp |-> ibgp, local_as |-> local_as, local_addr |-> local_addr]

\* Path::new (timestamp and the unused as_number field are left out)
Path(source, nexthop, attrs) == [source |-> source, nexthop |-> nexthop, attrs |-> attrs]

NewBest(nlri, nexthop, attrs, source) ==
    [kind |-> "NewBest", nlri |-> nlri, nexthop |-> nexthop, attrs |-> attrs, source |-> source]
Withdrawn(nlri, source) == [kind |-> "Withdrawn", nlri |-> nlri, source |-> source]

(***************************************************************************)
(* Map and sequence helpers (HashMap and Vec operations).                   *)
(***************************************************************************)
EmptyMap == <<>>
\* helpers that remove nothing (faulty variants the properties must reject)
DelKeep(f, k) == f
RemoveAtKeep(s, i) == s
Put(f, k, v) == [x \in (DOMAIN f) \cup {k} |-> IF x = k THEN v ELSE f[x]]
Del(f, k) == [x \in (DOMAIN f) \ {k} |-> f[x]]
Get(f, k, default) == IF k \in DOMAIN f THEN f[k] ELSE default

RemoveAt(s, i) == SubSeq(s, 1, i - 1) \o SubSeq(s, i + 1, Len(s))
InsertAt(s, i, e) == SubSeq(s, 1, i - 1) \o <<e>> \o SubSeq(s, i, Len(s))
Min(S) == CHOOSE x \in S : \A y \in S : x <= y

\* all the orders in which a set can be iterated
Perms(S) == {s \in [1..Cardinality(S) -> S] : \A i, j \in 1..Cardinality(S) : s[i] = s[j] => i = j}

(***************************************************************************)
(* Path getters.                                                            *)
(***************************************************************************)
DEFAULT == 100

\* index of the first attribute of the given type in the list, 0 when absent
FirstAttr(entry, code) ==
    LET I == {i \in 1..Len(entry) : entry[i].attr = code}
    IN IF I = {} THEN 0 ELSE Min(I)

\* bgp::Segment::as_len
as_len(segment) == Len(segment.number)

RECURSIVE SumLen(_, _)
SumLen(segments, i) ==
    IF i > Len(segments) THEN 0 ELSE as_len(segments[i]) + SumLen(segments, i + 1)

get_local_preference(p) ==
    LET i == FirstAttr(p.attrs.entry, LOCAL_PREF)
    IN IF i = 0 THEN DEFAULT ELSE p.attrs.entry[i].preference

get_as_len(p) ==
    LET i == FirstAttr(p.attrs.entry, AS_PATH)
    IN IF i = 0 THEN 0 ELSE SumLen(p.attrs.entry[i].segments, 1)

get_origin(p) ==
    LET i == FirstAttr(p.attrs.entry, ORIGIN)
    IN IF i = 0 THEN 0 ELSE p.attrs.entry[i].origin

get_med(p) ==
    LET i == FirstAttr(p.attrs.entry, MULTI_EXIT_DESC)
    IN IF i = 0 THEN 0 ELSE p.attrs.entry[i].descriptor

(***************************************************************************)
(* Table: insert, remove, clear, broadcast.  Indexes are 1-based: the       *)
(* code's entry[0] is entry[1] here.                                        *)
(***************************************************************************)
\* a scan that never finds the address (a faulty variant the properties must reject)
FirstSourceNone(entry, address) == 0

\* index of the first path of the entry list from the given address, 0 when none
FirstSource(entry, address) ==
    LET I == {i \in 1..Len(entry) : entry[i].source.address = address}
    IN IF I = {} THEN 0 ELSE Min(I)

\* the scan of insert: b goes before the first entry one of the four tests
\* picks, and last when none does
insert_idx(entry, b) ==
    LET I == {i \in 1..Len(entry) :
                \/ get_local_preference(b) > get_local_preference(entry[i])
                \/ get_as_len(b) < get_as_len(entry[i])
                \/ get_origin(b) < get_origin(entry[i])
                \/ get_med(b) < get_med(entry[i])}
    IN IF I = {} THEN Len(entry) + 1 ELSE Min(I)

\* an insert that reports a new best path only when the new path lands first
\* (a faulty variant the properties must reject)
insert_head_only(m, family, net, source, nexthop, attrs) ==
    LET t == Get(m, family, EmptyMap)
        b == Path(source, nexthop, attrs)
        d == Get(t, net, <<>>)
        i == FirstSource(d, source.address)
        d1 == IF i # 0 THEN RemoveAt(d, i) ELSE d
        idx == IF disable_best_path_selection THEN 1 ELSE insert_idx(d1, b)
        d2 == InsertAt(d1, idx, b)
    IN [master |-> Put(m, family, Put(t, net, d2)),
        update |-> IF ~disable_best_path_selection /\ idx = 1
                   THEN <<NewBest(net, nexthop, d2[1].attrs, d2[1].source)>>
                   ELSE <<>>,
        flag |-> i = 0]

\* Table::insert on the family map m: the new map, the Option<TableUpdate>
\* (a sequence of length 0 or 1) and the flag
insert(m, family, net, source, nexthop, attrs) ==
    LET t == Get(m, family, EmptyMap)
        b == Path(source, nexthop, attrs)
    IN IF net \in DOMAIN t
       THEN LET d == t[net]
                i == FirstSource(d, source.address)
                replaced == i # 0
                d1 == IF replaced THEN RemoveAt(d, i) ELSE d
                idx == IF disable_best_path_selection THEN 1 ELSE insert_idx(d1, b)
                new_best == (i = 1) \/ (idx = 1)
                d2 == InsertAt(d1, idx, b)
            IN [master |-> Put(m, family, Put(t, net, d2)),
                update |-> IF ~disable_best_path_selection /\ new_best
                           THEN <<NewBest(net, nexthop, d2[1].attrs, d2[1].source)>>
                           ELSE <<>>,
                flag |-> ~replaced]
       ELSE [master |-> Put(m, family, Put(t, net, <<b>>)),
             update |-> IF ~disable_best_path_selection
                        THEN <<NewBest(net, nexthop, attrs, source)>>
                        ELSE <<>>,
             flag |-> TRUE]

\* a remove that fills the hole with the last path, as Vec::swap_remove does
\* (a faulty variant the properties must reject)
remove_swap(m, family, net, source) ==
    LET none == [master |-> m, update |-> <<>>, flag |-> FALSE]
        d == Get(Get(m, family, EmptyMap), net, <<>>)
        i == FirstSource(d, source.address)
        d1 == IF i = Len(d) THEN SubSeq(d, 1, i - 1)
              ELSE [SubSeq(d, 1, Len(d) - 1) EXCEPT ![i] = d[Len(d)]]
    IN IF i = 0 THEN none
       ELSE IF Len(d1) = 0
       THEN [master |-> Put(m, family, Del(m[family], net)),
             update |-> <<Withdrawn(net, source)>>,
             flag |-> TRUE]
       ELSE [master |-> Put(m, family, Put(m[family], net, d1)),
             update |-> IF i = 1
                        THEN <<NewBest(net, d1[1].nexthop, d1[1].attrs, d1[1].source)>>
                        ELSE <<>>,
             flag |-> TRUE]

\* Table::remove
remove(m, family, net, source) ==
    LET none == [master |-> m, update |-> <<>>, flag |-> FALSE]
    IN IF family \notin DOMAIN m THEN none
       ELSE LET t == m[family]
            IN IF net \notin DOMAIN t THEN none
               ELSE LET d == t[net]
                        i == FirstSource(d, source.address)
                        d1 == RemoveAt(d, i)
                    IN IF i = 0 THEN none
                       ELSE IF Len(d1) = 0
                       THEN [master |-> Put(m, family, Del(t, net)),
                             update |-> <<Withdrawn(net, source)>>,
                             flag |-> TRUE]
                       ELSE [master |-> Put(m, family, Put(t, net, d1)),
                             update |-> IF i = 1
                                        THEN <<NewBest(net, d1[1].nexthop, d1[1].attrs, d1[1].source)>>
                                        ELSE <<>>,
                             flag |-> TRUE]

\* the destinations of the table as <<family, net>> pairs, and the orders a
\* walk over the two nested HashMaps can take (family by family)
Dests(m) == UNION {{<<f, n>> : n \in DOMAIN m[f]} : f \in DOMAIN m}
IterOrders(m) ==
    {o \in Perms(Dests(m)) :
        \A i, j, k \in 1..Len(o) : (i < j /\ j < k /\ o[i][1] = o[k][1]) => o[j][1] = o[i][1]}

\* a clear that leaves the entry as it is (a faulty variant the properties must reject)
clear_entry_keep(d, source) == d

\* what the loop body of clear does to one destination: the entry list left
\* and the update pushed
clear_entry(d, source) ==
    LET i == FirstSource(d, source.address)
    IN IF i = 0 THEN d ELSE RemoveAt(d, i)
clear_update(d, net, source) ==
    LET i == FirstSource(d, source.address)
        d1 == RemoveAt(d, i)
    IN IF i = 0 THEN <<>>
       ELSE IF Len(d1) = 0 THEN <<Withdrawn(net, source)>>
       ELSE IF i = 1 THEN <<NewBest(net, d1[1].nexthop, d1[1].attrs, source)>>
       ELSE <<>>

RECURSIVE clear_updates(_, _, _, _)
clear_updates(m, source, order, i) ==
    IF i > Len(order) THEN <<>>
    ELSE clear_update(m[order[i][1]][order[i][2]], order[i][2], source)
            \o clear_updates(m, source, order, i + 1)

\* Table::clear, walking the destinations in the given order
clear(m, source, order) ==
    [master |-> [f \in DOMAIN m |->
                    [n \in {x \in DOMAIN m[f] : Len(clear_entry(m[f][x], source)) # 0} |->
                        clear_entry(m[f][n], source)]],
     updates |-> clear_updates(m, source, order, 1)]

(***************************************************************************)
(* Inputs of the model: the addresses, prefixes, AS numbers and messages    *)
(* the environment picks from.                                              *)
(***************************************************************************)
AsNumbers == <<65000, 65001>>
LocalAs == AsNumbers[1]            \* --as-number
OtherAs == AsNumbers[2]
PeerAddrs == {"192.0.2.1", "192.0.2.2"}
LocalAddr == "192.0.2.254"         \* stream.local_addr()
Nets == {"10.0.0.0/24"}
\* the family of an NLRI by the address family of its prefix
NetFamily(net) == IF net \in {"2001:db8::/32"} THEN "Ipv6Uc" ELSE "Ipv4Uc"

MultiProtocol(family) == [cap |-> "MultiProtocol", family |-> family]
RouteRefresh == [cap |-> "RouteRefresh"]
FourOctetAsNumber(as) == [cap |-> "FourOctetAsNumber", as_number |-> as]

\* the families of the MultiProtocol capabilities of a capability list
mp_families(caps) == {caps[i].family : i \in {j \in 1..Len(caps) : caps[j].cap = "MultiProtocol"}}

\* attribute lists in the order of the type codes (the UPDATE handler's
\* sort_by_key leaves them as they are): a short path with the
\* default LocalPref, and a longer path with a higher LocalPref
ShortPath == <<AsPath(<<Segment(TYPE_SEQ, <<OtherAs>>)>>)>>
PreferredPath == <<AsPath(<<Segment(TYPE_SEQ, <<OtherAs, OtherAs>>)>>), LocalPref(200)>>
SessAttrs == {ShortPath, PreferredPath}
\* a path that loses to ShortPath on Origin and on MED
IncompletePath == <<Origin(2), AsPath(<<Segment(TYPE_SEQ, <<OtherAs>>)>>), MultiExitDesc(10)>>

\* bgp::OpenMessage::HOLDTIME, the hold time of the OPEN the daemon sends
HOLDTIME == 90
\* an OPEN of a peer that advertises the same hold time
Open(as, caps) == [type |-> "Open", as |-> as, holdtime |-> HOLDTIME, params |-> caps]
Keepalive == [type |-> "Keepalive"]
Notification == [type |-> "Notification"]
Update(routes, nexthop, attrs, mp_routes, withdrawns) ==
    [type |-> "Update", routes |-> routes, nexthop |-> nexthop, attrs |-> attrs,
     mp_routes |-> mp_routes, withdrawns |-> withdrawns]

OpenMsgs == {Open(as, caps) : as \in {LocalAs, OtherAs}, caps \in {<<>>, <<MultiProtocol("Ipv4Uc")>>}}
\* the UPDATEs a peer at addr sends: an announcement of one prefix with
\* itself as next hop, or a withdrawal of one prefix
UpdateMsgs(addr) ==
    {Update(<<n>>, addr, a, <<>>, <<>>) : n \in Nets, a \in SessAttrs}
        \cup {Update(<<>>, addr, <<>>, <<>>, <<n>>) : n \in Nets}

(***************************************************************************)
(* Peer record.                                                             *)
(***************************************************************************)
DEFAULT_HOLD_TIME == 180

\* Peer::new(address, as_number) followed by the builder calls remote_as,
\* families and passive (router_id, connect_retry_time, uptime/downtime and
\* the message counters are left out)
Peer(as, remote_as, families, passive) ==
    [remote_as |-> remote_as,
     local_as |-> as,
     passive |-> passive,
     hold_time |-> DEFAULT_HOLD_TIME,
     state |-> "Idle",
     accepted |-> EmptyMap,
     remote_cap |-> <<>>,
     local_cap |-> <<RouteRefresh, FourOctetAsNumber(as)>> \o families]

\* Peer::hold_time, the builder call: 0 keeps the default
hold_time(peer, t) == IF t # 0 THEN [peer EXCEPT !.hold_time = t] ELSE peer

\* a reset that only sets the state (a faulty variant the properties must reject)
reset_state_only(peer) == [peer EXCEPT !.state = "Idle"]

\* Peer::reset
reset(peer) == [peer EXCEPT !.state = "Idle", !.accepted = EmptyMap, !.remote_cap = <<>>]

\* the u64 arithmetic of update_accepted leaves the range: the build either
\* panics there (overflow checks on) or wraps.  A count below zero stands
\* for the wrapped value 2^64 + count.
wraps(peer, family, delta) ==
    /\ family \in DOMAIN peer.accepted
    /\ (peer.accepted[family] >= 0) # (peer.accepted[family] + delta >= 0)

\* Peer::update_accepted, in the build that wraps
update_accepted(peer, family, delta) ==
    IF family \in DOMAIN peer.accepted
    THEN [peer EXCEPT !.accepted[family] = IF delta > 0 THEN @ + delta ELSE @ - (0 - delta)]
    ELSE IF delta > 0 THEN [peer EXCEPT !.accepted = Put(@, family, delta)]
    ELSE peer

(***************************************************************************)
(* Session task state.                                                      *)
(***************************************************************************)
NoUpdate == [withdrawns |-> <<>>, accept_v4 |-> 0, accept_v6 |-> 0]
NotWritten == [kind |-> "None"]

\* the locals of handle_session when the task is spawned
\*   pc      where the task is: start, loop, upd_withdraw, upd_accept,
\*           est_table, teardown, reset, done, panicked
\*   rx      the messages queued on session.rx
\*   written per prefix, the last TableUpdate send_update wrote to the peer
\*   notif   the NOTIFICATION written to the peer, if any
\*   upd     the locals of the UPDATE handler between its critical sections
\*   undecoded  the read buffer of session.lines starts with bytes the
\*           decoder does not take
\*   keepalive_interval  the seconds the delay is reset to
Session(addr, is_dynamic) ==
    [addr |-> addr,
     is_dynamic |-> is_dynamic,
     pc |-> "start",
     state |-> "Idle",
     source |-> Source(addr, FALSE, 0, LocalAddr),
     families |-> {},
     rx |-> <<>>,
     written |-> [n \in Nets |-> NotWritten],
     notif |-> "None",
     upd |-> NoUpdate,
     undecoded |-> FALSE,
     keepalive_interval |-> HOLDTIME \div 3]

\* the receiver of a session's channel is dropped when the task ends
RxOpen(session) == session.pc \notin {"done", "panicked"}

\* a broadcast that queues msg ahead of what the channel holds (a faulty
\* variant the properties must reject)
broadcast_front(ap, sess, from, msg) ==
    [s \in DOMAIN sess |->
        IF \E addr \in DOMAIN ap :
              /\ ap[addr].tx = s
              /\ addr # from.address
              /\ ~(from.ibgp /\ ap[addr].source.ibgp)
        THEN [sess[s] EXCEPT !.rx = <<msg>> \o @]
        ELSE sess[s]]

\* Table::broadcast: the sessions with msg queued where the code sends it.
\* tx names the session that polls the paired receiver.
broadcast(ap, sess, from, msg) ==
    [s \in DOMAIN sess |->
        IF \E addr \in DOMAIN ap :
              /\ ap[addr].tx = s
              /\ addr # from.address
              /\ ~(from.ibgp /\ ap[addr].source.ibgp)
              /\ RxOpen(sess[s])
        THEN [sess[s] EXCEPT !.rx = Append(@, msg)]
        ELSE sess[s]]

\* the record of one broadcast call kept in `last`: the channels before and
\* after it, and the sessions that still held their receiver
Bcast(ap, before, after, from, msg) ==
    [from |-> from, msg |-> msg, ap |-> ap,
     held |-> {s \in DOMAIN before : RxOpen(before[s])},
     before |-> [s \in DOMAIN before |-> before[s].rx],
     after |-> [s \in DOMAIN after |-> after[s].rx]]

\* `for u in updates { t.broadcast(from, &u) }` on the state
\* st = [sessions, log]
RECURSIVE broadcast_all(_, _, _, _, _)
broadcast_all(st, ap, from, updates, i) ==
    IF i > Len(updates) THEN st
    ELSE LET sess2 == broadcast(ap, st.sessions, from, updates[i])
         IN broadcast_all([sessions |-> sess2,
                           log |-> Append(st.log, Bcast(ap, st.sessions, sess2, from, updates[i]))],
                          ap, from, updates, i + 1)

\* Session::is_family_enabled, with is_mp computed from the NLRI
is_family_enabled(session, net) ==
    IF NetFamily(net) = "Ipv6Uc" THEN "Ipv6Uc" \in session.families
    ELSE "Ipv4Uc" \in session.families

\* Session::send_update: what the peer has been written last, per prefix
RECURSIVE send_update(_, _, _)
send_update(session, updates, i) ==
    IF i > Len(updates) THEN session
    ELSE LET u == updates[i]
             w == IF u.kind = "NewBest"
                  THEN [kind |-> "NewBest", nexthop |-> u.nexthop, attrs |-> u.attrs]
                  ELSE [kind |-> "Withdrawn"]
         IN send_update(IF is_family_enabled(session, u.nlri)
                        THEN [session EXCEPT !.written[u.nlri] = w]
                        ELSE session,
                        updates, i + 1)

(***************************************************************************)
(* update_attrs: the attributes written to a peer for one stored path.      *)
(***************************************************************************)
\* bgp::Attribute::is_transitive: of the stored attributes only the MED is
\* optional non-transitive
is_transitive(attr) == attr.attr # MULTI_EXIT_DESC

\* `for s in segs { segments.insert(0, Segment::new(..)) }`: every segment
\* is put in front of the ones copied before it
RECURSIVE insert_front(_, _)
insert_front(segs, i) ==
    IF i > Len(segs) THEN <<>> ELSE insert_front(segs, i + 1) \o <<segs[i]>>

\* the AsPath arm of update_attrs for an EBGP peer: the segments of the
\* attribute pushed to n
prepend_as(segs, local_as) ==
    LET segments == insert_front(segs, 1)
    IN IF Len(segments) = 0
       THEN <<Segment(TYPE_SEQ, <<local_as>>)>>
       ELSE IF segments[1].segment_type # TYPE_SEQ \/ Len(segments[1].number) = 255
       THEN <<Segment(TYPE_SEQ, <<local_as>>)>> \o segments
       ELSE [segments EXCEPT ![1].number = <<local_as>> \o @]

\* the loop of update_attrs over the stored attributes from index i on:
\* v are the attributes kept, n the ones made new
RECURSIVE attrs_loop(_, _, _, _)
attrs_loop(is_ibgp, local_as, attrs, i) ==
    IF i > Len(attrs) THEN [v |-> <<>>, n |-> <<>>]
    ELSE LET attr == attrs[i]
             rest == attrs_loop(is_ibgp, local_as, attrs, i + 1)
         IN IF ~is_transitive(attr) THEN rest
            ELSE IF ~is_ibgp /\ attr.attr = AS_PATH
            THEN [rest EXCEPT !.n = <<AsPath(prepend_as(attr.segments, local_as))>> \o @]
            ELSE IF ~is_ibgp /\ attr.attr = MULTI_EXIT_DESC THEN rest
            ELSE [rest EXCEPT !.v = <<attr>> \o @]

\* update_attrs: (v, n), the stored attributes kept and the new ones
update_attrs(is_ibgp, is_mp, local_as, nlri, original_nexthop, local_addr, attrs) ==
    LET seen == {attrs[i].attr : i \in 1..Len(attrs)}
        loop == attrs_loop(is_ibgp, local_as, attrs, 1)
        nexthop == IF is_ibgp THEN original_nexthop ELSE local_addr
    IN [v |-> loop.v,
        n |-> loop.n
              \o (IF is_mp
                  THEN <<[attr |-> "MpReach", family |-> "Ipv6Uc", nexthop |-> nexthop,
                          nlri |-> <<nlri>>]>>
                  ELSE <<[attr |-> "Nexthop", nexthop |-> nexthop]>>)
              \o (IF AS_PATH \in seen THEN <<>>
                  ELSE IF is_ibgp THEN <<AsPath(<<>>)>>
                  ELSE <<AsPath(<<Segment(TYPE_SEQ, <<local_as>>)>>)>>)
              \o (IF LOCAL_PREF \notin seen /\ is_ibgp THEN <<LocalPref(DEFAULT)>> ELSE <<>>)]

\* `v.append(n); v.sort_by_key(|a| a.attr())`: a stable sort by the type code
sort_by_key(v) ==
    LET of(code) == SelectSeq(v, LAMBDA a : a.attr = code)
    IN of(ORIGIN) \o of(AS_PATH) \o of("Nexthop") \o of(MULTI_EXIT_DESC)
          \o of(LOCAL_PREF) \o of("MpReach")

\* Service::list_path with table_type AdjOut, the name of a peer and no
\* prefixes: per destination of the family with a path to list, the paths
\* of the response (Path::to_api: the source, the next hop, the attributes
\* and the best flag)
list_path(family, name) ==
    LET t == Get(master, family, EmptyMap)
        source == IF name \in DOMAIN active_peers THEN <<active_peers[name].source>> ELSE <<>>
        adjout_filter(from) ==
            IF source = <<>> THEN TRUE
            ELSE (source[1].ibgp /\ from.ibgp) \/ name = from.address
        to_api(net, p) ==
            LET my == source[1]
                a == update_attrs(my.ibgp, NetFamily(net) = "Ipv6Uc", my.local_as, net,
                                  p.nexthop, my.local_addr, p.attrs.entry)
            IN [source |-> p.source,
                nexthop |-> IF my.ibgp THEN p.nexthop ELSE my.local_addr,
                pattrs |-> sort_by_key(a.v \o a.n),
                best |-> FALSE]
        listed(net) == SelectSeq(t[net], LAMBDA p : ~adjout_filter(p.source))
        r(net) == [i \in 1..Len(listed(net)) |->
                      [to_api(net, listed(net)[i]) EXCEPT !.best = (i = 1)]]
    IN [net \in {n \in DOMAIN t : listed(n) # <<>>} |-> r(net)]

(***************************************************************************)
(* The UPDATE handler's loops.  st = [master, sessions, count, log]: the    *)
(* table, the sessions (their channels), the accepted delta and the         *)
(* broadcasts made so far.                                                  *)
(***************************************************************************)
\* `for r in routes { insert; broadcast; if added { accept += 1 } }`
RECURSIVE insert_routes(_, _, _, _, _, _, _, _)
insert_routes(st, ap, family, routes, i, source, nexthop, attrs) ==
    IF i > Len(routes) THEN st
    ELSE LET r == insert(st.master, family, routes[i], source, nexthop, attrs)
             sess2 == IF r.update # <<>>
                      THEN broadcast(ap, st.sessions, source, r.update[1])
                      ELSE st.sessions
         IN insert_routes([master |-> r.master,
                           sessions |-> sess2,
                           count |-> st.count + (IF r.flag THEN 1 ELSE 0),
                           log |-> IF r.update # <<>>
                                   THEN Append(st.log, Bcast(ap, st.sessions, sess2, source, r.update[1]))
                                   ELSE st.log],
                          ap, family, routes, i + 1, source, nexthop, attrs)

\* `for f in mp_routes { for r in f.0 { insert(Ipv6Uc, r, .., f.1, ..) .. } }`
RECURSIVE insert_mp_routes(_, _, _, _, _, _)
insert_mp_routes(st, ap, mp_routes, i, source, attrs) ==
    IF i > Len(mp_routes) THEN st
    ELSE insert_mp_routes(
            insert_routes(st, ap, "Ipv6Uc", mp_routes[i][1], 1, source, mp_routes[i][2], attrs),
            ap, mp_routes, i + 1, source, attrs)

\* `for r in withdrawns { remove; broadcast; if deleted { accept -= 1 } }`
\* st = [master, sessions, v4, v6, log]
RECURSIVE remove_routes(_, _, _, _, _)
remove_routes(st, ap, withdrawns, i, source) ==
    IF i > Len(withdrawns) THEN st
    ELSE LET family == NetFamily(withdrawns[i])
             r == remove(st.master, family, withdrawns[i], source)
             sess2 == IF r.update # <<>>
                      THEN broadcast(ap, st.sessions, source, r.update[1])
                      ELSE st.sessions
         IN remove_routes([master |-> r.master,
                           sessions |-> sess2,
                           v4 |-> st.v4 - (IF r.flag /\ family = "Ipv4Uc" THEN 1 ELSE 0),
                           v6 |-> st.v6 - (IF r.flag /\ family # "Ipv4Uc" THEN 1 ELSE 0),
                           log |-> IF r.update # <<>>
                                   THEN Append(st.log, Bcast(ap, st.sessions, sess2, source, r.update[1]))
                                   ELSE st.log],
                          ap, withdrawns, i + 1, source)

\* the initial dump: one NewBest per destination of the session's families,
\* in the order the walk takes
RECURSIVE dump(_, _, _, _, _)
dump(m, families, order, i, source) ==
    IF i > Len(order) THEN <<>>
    ELSE (IF order[i][1] \in families
          THEN <<NewBest(order[i][2],
                         m[order[i][1]][order[i][2]][1].nexthop,
                         m[order[i][1]][order[i][2]][1].attrs,
                         source)>>
          ELSE <<>>) \o dump(m, families, order, i + 1, source)

(***************************************************************************)
(* Initial state: the daemon started with --as-number and an empty table.    *)
(***************************************************************************)
ConnAddrs == PeerAddrs \cup {"198.51.100.7"}
\* --router-id
RouterId == "192.0.2.254"
\* main has passed the start barrier and runs its loop
NoAttempts == [a \in ConnAddrs |-> [surfaced |-> 0, connects |-> 0]]
MainRunning ==
    /\ asn = LocalAs
    /\ id = RouterId
    /\ init_tx = {}
    /\ main_pc = "loop"
    /\ attempts = NoAttempts

\* `last`: op names what the step was; bcast lists its broadcast calls
NoLast == [op |-> "none", bcast |-> <<>>]
\* no list_path task: nothing to send, no response channel in use
NoListTask == [pc |-> "none", v |-> <<>>, tx |-> <<>>, closed |-> FALSE]
\* the guard of the RIB lock is free: the one task that keeps it while it
\* waits for something else than a lock is the task of list_path
TableLockFree == list_task.pc # "send"
\* the step in which session s took msg from its peer
Recv(s, msg) == [op |-> "recv", bcast |-> <<>>, s |-> s, msg |-> msg]

\* configured: the registry add_peer has filled; requests: the addresses it
\* has sent on active_tx
InitWith(collector, groups, configured, requests) ==
    /\ master = EmptyMap
    /\ disable_best_path_selection = collector
    /\ active_peers = EmptyMap
    /\ as_number = LocalAs
    /\ peers = configured
    /\ peer_group = groups
    /\ active_tx = requests
    /\ expirations = [a \in ConnAddrs |-> 0]
    /\ sessions = <<>>
    /\ overflow_checks = "undetermined"
    /\ MainRunning
    /\ events = 0
    /\ list_task = NoListTask
    /\ last = NoLast

(***************************************************************************)
(* Control API.                                                             *)
(***************************************************************************)
\* the global lock is free: a start_bgp that waits at the barrier holds it
GlobalLockFree == "start_bgp" \notin init_tx

\* a barrier of one party: whoever arrives goes on at once (a faulty variant
\* the properties must reject)
ArriveAlone(party) ==
    /\ init_tx' = {}
    /\ main_pc' = "loop"

\* the barrier has two parties: the second to arrive releases both, main
\* goes on to its loop and start_bgp returns
Arrive(party) ==
    IF init_tx \in {{}, {party}}
    THEN /\ init_tx' = {party}
         /\ main_pc' = IF party = "main" THEN "barrier" ELSE main_pc
    ELSE /\ init_tx' = {}
         /\ main_pc' = "loop"

\* Ipv4Addr::from_str / IpAddr::from_str on the texts of the model: Ok(addr)
\* as <<addr>>, Err as <<>>
from_str(text) == IF text \in ConnAddrs \cup {RouterId} THEN <<text>> ELSE <<>>

\* a start_bgp without the test for a daemon that is started (a faulty
\* variant the properties must reject)
start_bgp_again(as, router_id) ==
    LET result == IF as = 0 THEN "invalid as number"
                  ELSE IF from_str(router_id) = <<>> THEN "invalid router id"
                  ELSE "Ok"
    IN /\ GlobalLockFree
       /\ events < MaxEvents
       /\ events' = events + 1
       /\ last' = [op |-> "start_bgp", bcast |-> <<>>, as |-> as, router_id |-> router_id,
                   result |-> result]
       /\ IF result = "Ok"
          THEN /\ as_number' = as
               /\ id' = from_str(router_id)[1]
               /\ Arrive("start_bgp")
          ELSE UNCHANGED <<as_number, id, init_tx, main_pc>>
       /\ UNCHANGED <<tableVars, disable_best_path_selection, overflow_checks, list_task, asn, attempts,
                      peers, peer_group, active_tx, expirations, sessions>>

\* start_bgp: the three tests, then the assignments and the barrier, all
\* under the global lock
start_bgp(as, router_id) ==
    LET result == IF as_number # 0 THEN "already started"
                  ELSE IF as = 0 THEN "invalid as number"
                  ELSE IF from_str(router_id) = <<>> THEN "invalid router id"
                  ELSE "Ok"
    IN /\ GlobalLockFree
       /\ events < MaxEvents
       /\ events' = events + 1
       /\ last' = [op |-> "start_bgp", bcast |-> <<>>, as |-> as, router_id |-> router_id,
                   result |-> result]
       /\ IF result = "Ok"
          THEN /\ as_number' = as
               /\ id' = from_str(router_id)[1]
               /\ Arrive("start_bgp")
          ELSE UNCHANGED <<as_number, id, init_tx, main_pc>>
       /\ UNCHANGED <<tableVars, disable_best_path_selection, overflow_checks, list_task, asn, attempts,
                      peers, peer_group, active_tx, expirations, sessions>>

\* add_peer: a text that is no address falls through to the final Err, an
\* address of the registry is AlreadyExists; both leave everything as it is
add_peer(neighbor_address, remote_as, families, passive, t) ==
    LET parsed == from_str(neighbor_address)
        result == IF parsed = <<>> THEN "Unimplemented"
                  ELSE IF parsed[1] \in DOMAIN peers THEN "AlreadyExists"
                  ELSE "Ok"
    IN /\ GlobalLockFree
       /\ events < MaxEvents
       /\ events' = events + 1
       /\ IF result = "Ok"
          THEN /\ peers' = Put(peers, parsed[1],
                               hold_time(Peer(as_number, remote_as, families, passive), t))
               /\ active_tx' = IF ~passive THEN Append(active_tx, parsed[1]) ELSE active_tx
          ELSE UNCHANGED <<peers, active_tx>>
       /\ last' = [op |-> "add_peer", bcast |-> <<>>, neighbor_address |-> neighbor_address,
                   passive |-> passive, result |-> result]
       /\ UNCHANGED <<tableVars, disable_best_path_selection, overflow_checks, mainVars, list_task, attempts,
                      as_number, peer_group, expirations, sessions>>

local_source == Source(UNSPECIFIED, FALSE, 0, UNSPECIFIED)

\* add_path: insert from the local source and broadcast the update
add_path(family, nlri, nexthop, attrs) ==
    LET r == insert(master, family, nlri, local_source, nexthop, PathAttr(attrs, UNSPECIFIED))
        st == broadcast_all([sessions |-> sessions, log |-> <<>>], active_peers,
                            local_source, r.update, 1)
    IN /\ TableLockFree
       /\ events < MaxEvents
       /\ events' = events + 1
       /\ master' = r.master
       /\ sessions' = st.sessions
       /\ last' = [op |-> "add_path", bcast |-> st.log]
       /\ UNCHANGED <<disable_best_path_selection, overflow_checks, mainVars, list_task, attempts, active_peers, globalVars, expirations>>

\* delete_path: remove the local source's path and broadcast the update
delete_path(family, nlri) ==
    LET r == remove(master, family, nlri, local_source)
        st == broadcast_all([sessions |-> sessions, log |-> <<>>], active_peers,
                            local_source, r.update, 1)
    IN /\ TableLockFree
       /\ events < MaxEvents
       /\ events' = events + 1
       /\ master' = r.master
       /\ sessions' = st.sessions
       /\ last' = [op |-> "delete_path", bcast |-> st.log]
       /\ UNCHANGED <<disable_best_path_selection, overflow_checks, mainVars, list_task, attempts, active_peers, globalVars, expirations>>

(***************************************************************************)
(* The task of list_path.  list_task = [pc, v, tx, closed]: "send" while    *)
(* the task is in its send loop, v the responses not yet sent, tx the       *)
(* responses in the bounded channel, closed once the client has dropped the *)
(* receiver.  The guard `table` is a local of the task body: it is taken    *)
(* before the responses are built and dropped where the body ends, after    *)
(* the send loop.                                                           *)
(***************************************************************************)
\* the capacity of the response channel (mpsc::channel(1024)), scaled to the
\* destinations of the model
ResponseCap == 1

\* the responses of table_type Global with no prefixes: one per destination
\* of the family, in the iteration order of the map, its first path marked
\* best
list_global(m, family, order) ==
    [i \in 1..Len(order) |->
        [net |-> order[i],
         paths |-> [j \in 1..Len(m[family][order[i]]) |->
                       [source |-> m[family][order[i]][j].source,
                        nexthop |-> m[family][order[i]][j].nexthop,
                        pattrs |-> m[family][order[i]][j].attrs.entry,
                        best |-> j = 1]]]]

\* list_path, table_type Global: the spawned task takes the RIB lock and
\* builds its responses; with nothing to send it ends at once
ListPath(family) ==
    /\ TableLockFree
    /\ events < MaxEvents
    /\ events' = events + 1
    /\ \E order \in Perms(DOMAIN Get(master, family, EmptyMap)) :
          LET v == list_global(master, family, order)
          IN list_task' = [pc |-> IF v = <<>> THEN "done" ELSE "send", v |-> v,
                           tx |-> <<>>, closed |-> FALSE]
    /\ last' = [op |-> "list_path", bcast |-> <<>>]
    /\ UNCHANGED <<tableVars, disable_best_path_selection, overflow_checks, mainVars, attempts,
                   globalVars, expirations, sessions>>

\* what a step of the list_path task or of its client leaves alone
ListFrame ==
    UNCHANGED <<tableVars, disable_best_path_selection, overflow_checks, mainVars, attempts,
                globalVars, expirations, sessions, events>>

\* `tx.send(Ok(r)).await` with room in the channel; after the last response
\* the body ends and the guard is dropped
ListPathSend ==
    /\ list_task.pc = "send"
    /\ ~list_task.closed
    /\ Len(list_task.tx) < ResponseCap
    /\ list_task' = [list_task EXCEPT !.tx = Append(@, Head(list_task.v)),
                                       !.v = Tail(@),
                                       !.pc = IF Len(list_task.v) = 1 THEN "done" ELSE "send"]
    /\ last' = [op |-> "list_send", bcast |-> <<>>]
    /\ ListFrame

\* `tx.send(Ok(r)).await.unwrap()` after the client dropped the receiver:
\* the send fails, the task panics and its locals, the guard too, are dropped
ListPathSendErr ==
    /\ list_task.pc = "send"
    /\ list_task.closed
    /\ list_task' = [list_task EXCEPT !.pc = "panicked", !.v = <<>>]
    /\ last' = [op |-> "list_send", bcast |-> <<>>]
    /\ ListFrame

\* the client reads one response of the stream
ClientRecv ==
    /\ list_task.tx # <<>>
    /\ ~list_task.closed
    /\ list_task' = [list_task EXCEPT !.tx = Tail(@)]
    /\ last' = [op |-> "client_recv", bcast |-> <<>>]
    /\ ListFrame

\* the client cancels the call: the receiver and what it holds are dropped
ClientDrop ==
    /\ list_task.pc \in {"send", "done"}
    /\ ~list_task.closed
    /\ list_task' = [list_task EXCEPT !.tx = <<>>, !.closed = TRUE]
    /\ last' = [op |-> "client_drop", bcast |-> <<>>]
    /\ ListFrame

(***************************************************************************)
(* Connection orchestrator (main loop).                                     *)
(***************************************************************************)
\* IpNet::contains for the prefixes of the model
Contains(prefix, addr) == prefix = "0.0.0.0/0"

is_dynamic_addr(addr) ==
    \E g \in DOMAIN peer_group :
        \E i \in 1..Len(peer_group[g].dynamic_peers) :
            Contains(peer_group[g].dynamic_peers[i], addr)

\* main between the spawn of the gRPC server and its loop: it waits at the
\* barrier when the command line gave no AS number
MainStart ==
    /\ main_pc = "init"
    /\ IF asn = 0 THEN Arrive("main")
       ELSE /\ main_pc' = "loop"
            /\ UNCHANGED init_tx
    /\ last' = NoLast
    /\ UNCHANGED <<tableVars, disable_best_path_selection, overflow_checks, list_task, asn, id, attempts,
                   globalVars, expirations, sessions, events>>

\* a new connection from addr: find or synthesize the Peer, spawn the task
Connected(addr) ==
    /\ main_pc = "loop"
    /\ Len(sessions) < Cardinality(SessionIds)
    /\ IF addr \in DOMAIN peers
       THEN /\ sessions' = Append(sessions, Session(addr, FALSE))
            /\ UNCHANGED peers
       ELSE IF is_dynamic_addr(addr)
       THEN /\ peers' = Put(peers, addr, Peer(as_number, 0, <<MultiProtocol("Ipv4Uc")>>, FALSE))
            /\ sessions' = Append(sessions, Session(addr, TRUE))
       ELSE UNCHANGED <<peers, sessions>>
    /\ last' = NoLast
    /\ UNCHANGED <<tableVars, disable_best_path_selection, overflow_checks, mainVars, list_task, as_number,
                   peer_group, active_tx, events>>

\* Streamer::poll_next: an address received on active_tx is scheduled
OrchQueue ==
    /\ main_pc = "loop"
    /\ active_tx # <<>>
    /\ expirations' = [expirations EXCEPT ![Head(active_tx)] = @ + 1]
    /\ active_tx' = Tail(active_tx)
    /\ last' = NoLast
    /\ UNCHANGED <<tableVars, disable_best_path_selection, overflow_checks, mainVars, list_task, attempts,
                   as_number, peers, peer_group, sessions, events>>

\* an entry of the delay queue for addr expires: GlobalEvent::Active
Surfaces(addr) ==
    /\ main_pc = "loop"
    /\ TableLockFree
    /\ expirations[addr] > 0

\* an Active event for a connected peer that is scheduled again (a faulty
\* variant the properties must reject)
OrchActiveSkipAgain(addr) ==
    /\ Surfaces(addr)
    /\ addr \in DOMAIN active_peers
    /\ attempts[addr].surfaced < MaxConnects
    /\ attempts' = [attempts EXCEPT ![addr].surfaced = @ + 1]
    /\ last' = NoLast
    /\ UNCHANGED <<tableVars, disable_best_path_selection, overflow_checks, mainVars, list_task, globalVars,
                   expirations, sessions, events>>

\* GlobalEvent::Active for a peer that is in active_peers: already connected
OrchActiveSkip(addr) ==
    /\ Surfaces(addr)
    /\ addr \in DOMAIN active_peers
    /\ expirations' = [expirations EXCEPT ![addr] = @ - 1]
    /\ attempts' = [attempts EXCEPT ![addr].surfaced = @ + 1]
    /\ last' = NoLast
    /\ UNCHANGED <<tableVars, disable_best_path_selection, overflow_checks, mainVars, list_task, globalVars,
                   sessions, events>>

\* a failed connect that forgets the address (a faulty variant the
\* properties must reject)
OrchConnectFailDrop(addr) ==
    /\ Surfaces(addr)
    /\ addr \notin DOMAIN active_peers
    /\ attempts[addr].connects < MaxConnects
    /\ Len(sessions) < Cardinality(SessionIds)
    /\ expirations' = [expirations EXCEPT ![addr] = @ - 1]
    /\ attempts' = [attempts EXCEPT ![addr].surfaced = @ + 1, ![addr].connects = @ + 1]
    /\ last' = [op |-> "connect_failed", bcast |-> <<>>, addr |-> addr]
    /\ UNCHANGED <<tableVars, disable_best_path_selection, overflow_checks, mainVars, list_task, globalVars,
                   sessions, events>>

\* GlobalEvent::Active, connect fails: the address is scheduled again
OrchConnectFail(addr) ==
    /\ Surfaces(addr)
    /\ addr \notin DOMAIN active_peers
    /\ attempts[addr].connects < MaxConnects
    /\ Len(sessions) < Cardinality(SessionIds)
    /\ attempts' = [attempts EXCEPT ![addr].surfaced = @ + 1, ![addr].connects = @ + 1]
    /\ last' = [op |-> "connect_failed", bcast |-> <<>>, addr |-> addr]
    /\ UNCHANGED <<tableVars, disable_best_path_selection, overflow_checks, mainVars, list_task, globalVars,
                   expirations, sessions, events>>

\* GlobalEvent::Active, connect succeeds
OrchConnect(addr) ==
    /\ Surfaces(addr)
    /\ addr \notin DOMAIN active_peers
    /\ expirations' = [expirations EXCEPT ![addr] = @ - 1]
    /\ attempts' = [attempts EXCEPT ![addr].surfaced = @ + 1, ![addr].connects = @ + 1]
    /\ Connected(addr)

\* GlobalEvent::Passive: an accepted inbound connection
OrchPassive(addr) ==
    /\ Connected(addr)
    /\ UNCHANGED <<expirations, attempts>>

(***************************************************************************)
(* Session task (handle_session).                                           *)
(***************************************************************************)
\* what a step that only touches the registry and the task's locals leaves alone
RegistryFrame ==
    UNCHANGED <<tableVars, disable_best_path_selection, as_number, peer_group, active_tx,
                expirations, mainVars, list_task, attempts>>
GlobalStep == RegistryFrame /\ UNCHANGED overflow_checks

\* what a step in a RIB critical section leaves alone
TableStep == TableLockFree /\ UNCHANGED <<disable_best_path_selection, overflow_checks, mainVars, list_task, attempts, globalVars, expirations>>

\* peers.get_mut(&addr).unwrap() on a missing record: the task panics, its
\* locals are dropped and its teardown never runs
Panic(s) ==
    /\ sessions' = [sessions EXCEPT ![s].pc = "panicked"]
    /\ UNCHANGED peers
    /\ GlobalStep

\* the next event of Session::poll_next is an inbound message: the channel
\* is polled before the socket
CanReceive(s) ==
    /\ s \in DOMAIN sessions
    /\ sessions[s].pc = "loop"
    /\ sessions[s].rx = <<>>
    /\ ~sessions[s].undecoded
    /\ events < MaxEvents

\* entry of handle_session: read the global AS, send OPEN, state OpenSent
SessionStart(s) ==
    /\ s \in DOMAIN sessions
    /\ UNCHANGED events
    /\ last' = NoLast
    /\ sessions[s].pc = "start"
    /\ LET addr == sessions[s].addr
       IN IF addr \notin DOMAIN peers THEN Panic(s)
          ELSE /\ sessions' = [sessions EXCEPT ![s].pc = "loop",
                                               ![s].state = "OpenSent",
                                               ![s].source = Source(addr, FALSE, as_number, LocalAddr)]
               /\ peers' = [peers EXCEPT ![addr].state = "OpenSent"]
               /\ GlobalStep

\* an Open handler without the test of the peer AS (a faulty variant the properties must reject)
RecvOpenAnyAs(s, open) ==
    /\ CanReceive(s)
    /\ events' = events + 1
    /\ last' = Recv(s, open)
    /\ LET addr == sessions[s].addr
       IN /\ addr \in DOMAIN peers
          /\ peers' = [peers EXCEPT ![addr].remote_as = open.as,
                                    ![addr].remote_cap = open.params,
                                    ![addr].state = "OpenConfirm"]
          /\ sessions' = [sessions EXCEPT
                             ![s].families = mp_families(peers[addr].local_cap)
                                                \cap mp_families(open.params),
                             ![s].keepalive_interval =
                                 IF open.holdtime \div 3 < @ THEN open.holdtime \div 3 ELSE @,
                             ![s].state = "OpenConfirm"]
          /\ GlobalStep

\* Message::Open: a bad peer AS is answered with a NOTIFICATION and ends the
\* loop; otherwise the capabilities are recorded and the state is OpenConfirm
RecvOpen(s, open) ==
    /\ CanReceive(s)
    /\ events' = events + 1
    /\ last' = Recv(s, open)
    /\ LET addr == sessions[s].addr
       IN IF addr \notin DOMAIN peers THEN Panic(s)
          ELSE IF peers[addr].remote_as # 0 /\ peers[addr].remote_as # open.as
          THEN /\ peers' = [peers EXCEPT ![addr].state = "Idle"]
               /\ sessions' = [sessions EXCEPT ![s].notif = "OpenMessageBadPeerAs",
                                               ![s].pc = "teardown"]
               /\ GlobalStep
          ELSE /\ peers' = [peers EXCEPT ![addr].remote_as = open.as,
                                         ![addr].remote_cap = open.params,
                                         ![addr].state = "OpenConfirm"]
               /\ sessions' = [sessions EXCEPT
                                  ![s].families = mp_families(peers[addr].local_cap)
                                                     \cap mp_families(open.params),
                                  ![s].keepalive_interval =
                                      IF open.holdtime \div 3 < @ THEN open.holdtime \div 3 ELSE @,
                                  ![s].state = "OpenConfirm"]
               /\ GlobalStep

\* bytes on the wire that bgp::Message::from_bytes rejects
Malformed == [type |-> "Malformed"]

\* Decoder::decode: Ok(Some(m)) as <<m>>, Ok(None) as <<>>; the Err of
\* from_bytes becomes Ok(None) and the bytes stay in the buffer
decode(bytes) == IF bytes = Malformed THEN <<>> ELSE <<bytes>>

\* malformed bytes arrive: the decoder yields no frame, poll_next no event,
\* the task stays where it is; every later decode starts at the same bytes
RecvMalformed(s) ==
    /\ CanReceive(s)
    /\ decode(Malformed) = <<>>
    /\ events' = events + 1
    /\ last' = [op |-> "malformed", bcast |-> <<>>, s |-> s]
    /\ sessions' = [sessions EXCEPT ![s].undecoded = TRUE]
    /\ UNCHANGED peers
    /\ GlobalStep

\* Message::Notification
RecvNotification(s) ==
    /\ CanReceive(s)
    /\ events' = events + 1
    /\ last' = Recv(s, Notification)
    /\ IF sessions[s].addr \notin DOMAIN peers THEN Panic(s)
       ELSE /\ sessions' = [sessions EXCEPT ![s].pc = "teardown"]
            /\ UNCHANGED peers
            /\ GlobalStep

\* a read or write error, or the end of the stream
SessionError(s) ==
    /\ s \in DOMAIN sessions
    /\ UNCHANGED events
    /\ last' = NoLast
    /\ sessions[s].pc = "loop"
    /\ sessions' = [sessions EXCEPT ![s].pc = "teardown"]
    /\ UNCHANGED peers
    /\ GlobalStep

\* Message::Keepalive: outside Established the state becomes Established,
\* the peer's Source is built; the table is registered in the next section
RecvKeepalive(s) ==
    /\ CanReceive(s)
    /\ events' = events + 1
    /\ last' = Recv(s, Keepalive)
    /\ LET addr == sessions[s].addr
       IN IF addr \notin DOMAIN peers THEN Panic(s)
          ELSE IF sessions[s].state # "Established"
          THEN /\ peers' = [peers EXCEPT ![addr].state = "Established"]
               /\ sessions' = [sessions EXCEPT
                                  ![s].state = "Established",
                                  ![s].source = Source(addr,
                                                       peers[addr].local_as = peers[addr].remote_as,
                                                       peers[addr].local_as,
                                                       LocalAddr),
                                  ![s].pc = "est_table"]
               /\ GlobalStep
          ELSE /\ UNCHANGED <<sessions, peers>>
               /\ GlobalStep

\* Keepalive, RIB section: a new channel, the entry in active_peers and the
\* initial dump, which send_update then writes to the peer
EstablishTable(s) ==
    /\ s \in DOMAIN sessions
    /\ UNCHANGED events
    /\ sessions[s].pc = "est_table"
    /\ \E order \in IterOrders(master) :
          LET me == sessions[s]
              v == IF disable_best_path_selection THEN <<>>
                   ELSE dump(master, me.families, order, 1, me.source)
          IN /\ active_peers' = Put(active_peers, me.addr, [tx |-> s, source |-> me.source])
             /\ sessions' = [sessions EXCEPT
                                ![s] = send_update([me EXCEPT !.rx = <<>>, !.pc = "loop"], v, 1)]
    /\ last' = NoLast
    /\ UNCHANGED master
    /\ TableStep

\* Message::Update, first RIB section: the announced routes
RecvUpdate(s, update) ==
    /\ CanReceive(s)
    /\ update \in UpdateMsgs(sessions[s].addr)
    /\ events' = events + 1
    /\ IF sessions[s].addr \notin DOMAIN peers THEN Panic(s) /\ last' = Recv(s, update)
       ELSE LET me == sessions[s]
                pa == PathAttr(update.attrs, me.addr)
                st0 == [master |-> master, sessions |-> sessions, count |-> 0, log |-> <<>>]
                st4 == IF Len(update.attrs) > 0
                       THEN insert_routes(st0, active_peers, "Ipv4Uc", update.routes, 1,
                                          me.source, update.nexthop, pa)
                       ELSE st0
                st6 == IF Len(update.attrs) > 0
                       THEN insert_mp_routes([st4 EXCEPT !.count = 0], active_peers,
                                             update.mp_routes, 1, me.source, pa)
                       ELSE st0
            IN /\ master' = st6.master
               /\ sessions' = [st6.sessions EXCEPT
                                  ![s].upd = [withdrawns |-> update.withdrawns,
                                              accept_v4 |-> st4.count,
                                              accept_v6 |-> st6.count],
                                  ![s].pc = IF Len(update.withdrawns) > 0
                                            THEN "upd_withdraw" ELSE "upd_accept"]
               /\ last' = [Recv(s, update) EXCEPT !.bcast = st6.log]
               /\ UNCHANGED active_peers
               /\ TableStep

\* Message::Update, second RIB section: the withdrawn routes
UpdateWithdraw(s) ==
    /\ s \in DOMAIN sessions
    /\ UNCHANGED events
    /\ sessions[s].pc = "upd_withdraw"
    /\ LET me == sessions[s]
           st == remove_routes([master |-> master, sessions |-> sessions,
                                v4 |-> me.upd.accept_v4, v6 |-> me.upd.accept_v6,
                                log |-> <<>>],
                               active_peers, me.upd.withdrawns, 1, me.source)
       IN /\ master' = st.master
          /\ sessions' = [st.sessions EXCEPT
                             ![s].upd = [withdrawns |-> <<>>, accept_v4 |-> st.v4, accept_v6 |-> st.v6],
                             ![s].pc = "upd_accept"]
          /\ last' = [op |-> "withdraw", bcast |-> st.log, s |-> s]
    /\ UNCHANGED active_peers
    /\ TableStep

\* Message::Update, registry section: the accepted counters.  Where the
\* arithmetic leaves the u64 range, a build with overflow checks panics at
\* that call and a build without goes on with the wrapped count; the first
\* overflow of a behaviour shows which build it is.
UpdateAccept(s) ==
    /\ s \in DOMAIN sessions
    /\ UNCHANGED events
    /\ last' = NoLast
    /\ sessions[s].pc = "upd_accept"
    /\ LET me == sessions[s]
       IN IF me.addr \notin DOMAIN peers THEN Panic(s)
          ELSE LET p4 == update_accepted(peers[me.addr], "Ipv4Uc", me.upd.accept_v4)
                   p6 == update_accepted(p4, "Ipv6Uc", me.upd.accept_v6)
                   w4 == wraps(peers[me.addr], "Ipv4Uc", me.upd.accept_v4)
                   w6 == wraps(p4, "Ipv6Uc", me.upd.accept_v6)
               IN \/ /\ (w4 \/ w6) => overflow_checks \in {"undetermined", "off"}
                     /\ overflow_checks' = IF w4 \/ w6 THEN "off" ELSE overflow_checks
                     /\ peers' = [peers EXCEPT ![me.addr] = p6]
                     /\ sessions' = [sessions EXCEPT ![s].upd = NoUpdate, ![s].pc = "loop"]
                     /\ RegistryFrame
                  \/ /\ w4 \/ w6
                     /\ overflow_checks \in {"undetermined", "on"}
                     /\ overflow_checks' = "on"
                     /\ peers' = IF w4 THEN peers ELSE [peers EXCEPT ![me.addr] = p4]
                     /\ sessions' = [sessions EXCEPT ![s].pc = "panicked"]
                     /\ RegistryFrame

\* Event::Broadcast: the head of the channel is encoded and written
SessionBroadcast(s) ==
    /\ s \in DOMAIN sessions
    /\ UNCHANGED events
    /\ last' = NoLast
    /\ sessions[s].pc = "loop"
    /\ sessions[s].rx # <<>>
    /\ sessions' = [sessions EXCEPT
                       ![s] = send_update([@ EXCEPT !.rx = Tail(@)], <<Head(sessions[s].rx)>>, 1)]
    /\ UNCHANGED peers
    /\ GlobalStep

\* a teardown that resets the Peer record inside its RIB section, under both
\* locks (a faulty variant the properties must reject)
TeardownBothLocks(s) ==
    /\ s \in DOMAIN sessions
    /\ UNCHANGED events
    /\ sessions[s].pc = "teardown"
    /\ sessions[s].addr \in DOMAIN peers
    /\ \E order \in IterOrders(master) :
          LET me == sessions[s]
              ap == Del(active_peers, me.addr)
              r == clear(master, me.source, order)
              st == broadcast_all([sessions |-> sessions, log |-> <<>>], ap, me.source,
                                  r.updates, 1)
          IN /\ active_peers' = ap
             /\ master' = r.master
             /\ peers' = [peers EXCEPT ![me.addr] = reset(@)]
             /\ sessions' = [st.sessions EXCEPT ![s].pc = "reset"]
             /\ last' = [op |-> "teardown", bcast |-> st.log, s |-> s]
    /\ UNCHANGED <<disable_best_path_selection, overflow_checks, mainVars, list_task, attempts,
                   as_number, peer_group, active_tx, expirations>>

\* teardown, RIB section: leave active_peers, clear the paths, broadcast
TeardownTable(s) ==
    /\ s \in DOMAIN sessions
    /\ TableLockFree
    /\ UNCHANGED events
    /\ sessions[s].pc = "teardown"
    /\ \E order \in IterOrders(master) :
          LET me == sessions[s]
              ap == Del(active_peers, me.addr)
              r == clear(master, me.source, order)
              st == broadcast_all([sessions |-> sessions, log |-> <<>>], ap, me.source,
                                  r.updates, 1)
          IN /\ active_peers' = ap
             /\ master' = r.master
             /\ sessions' = [st.sessions EXCEPT ![s].pc = "reset"]
             /\ last' = [op |-> "teardown", bcast |-> st.log, s |-> s]
    /\ TableStep

\* teardown, registry section: drop a dynamic peer, reset a configured one
\* and ask for a reconnect unless it is passive
TeardownGlobal(s) ==
    /\ s \in DOMAIN sessions
    /\ UNCHANGED events
    /\ sessions[s].pc = "reset"
    /\ LET me == sessions[s]
       IN IF me.is_dynamic
          THEN /\ peers' = Del(peers, me.addr)
               /\ sessions' = [sessions EXCEPT ![s].pc = "done"]
               /\ UNCHANGED active_tx
          ELSE IF me.addr \notin DOMAIN peers
          THEN /\ sessions' = [sessions EXCEPT ![s].pc = "panicked"]
               /\ UNCHANGED <<peers, active_tx>>
          ELSE /\ peers' = [peers EXCEPT ![me.addr] = reset(@)]
               /\ sessions' = [sessions EXCEPT ![s].pc = "done"]
               /\ active_tx' = IF ~peers[me.addr].passive
                               THEN Append(active_tx, me.addr) ELSE active_tx
    /\ last' = NoLast
    /\ UNCHANGED <<tableVars, disable_best_path_selection, overflow_checks, mainVars, list_task, attempts, as_number, peer_group, expirations>>

(***************************************************************************)
(* The daemon: the control API, the orchestrator and the session tasks.     *)
(***************************************************************************)
ApiAttrs == {ShortPath}

(***************************************************************************)
(* The RIB on its own: the callers of Table::insert, remove and clear, in   *)
(* any order, from any source.  `last` keeps the call and what it returned. *)
(***************************************************************************)
RibNets == {"10.0.0.0/24", "2001:db8::/32"}
\* the IPv4 prefix takes every attribute list; the IPv6 prefix is there for
\* the family maps and the walk of clear
RibAttrs(net) ==
    IF NetFamily(net) = "Ipv4Uc" THEN {ShortPath, PreferredPath, IncompletePath}
    ELSE {ShortPath}
\* the local source, an EBGP peer and an IBGP peer
RibSources ==
    {local_source, Source("192.0.2.1", FALSE, LocalAs, LocalAddr),
     Source("192.0.2.2", TRUE, LocalAs, LocalAddr)}

InitRib ==
    /\ master = EmptyMap
    /\ disable_best_path_selection \in BOOLEAN
    /\ active_peers = EmptyMap
    /\ as_number = LocalAs
    /\ peers = EmptyMap
    /\ peer_group = EmptyMap
    /\ active_tx = <<>>
    /\ expirations = [a \in ConnAddrs |-> 0]
    /\ sessions = <<>>
    /\ overflow_checks = "undetermined"
    /\ MainRunning
    /\ events = 0
    /\ list_task = NoListTask
    /\ last = NoLast

RibFrame ==
    UNCHANGED <<disable_best_path_selection, overflow_checks, mainVars, list_task, attempts, active_peers, globalVars, expirations,
                sessions, events>>

RibInsert(net, source, attrs) ==
    LET r == insert(master, NetFamily(net), net, source, source.address,
                    PathAttr(attrs, source.address))
    IN /\ master' = r.master
       /\ last' = [op |-> "insert", bcast |-> <<>>, net |-> net, source |-> source,
                   nexthop |-> source.address, attrs |-> PathAttr(attrs, source.address),
                   update |-> r.update, flag |-> r.flag]
       /\ RibFrame

RibRemove(net, source) ==
    LET r == remove(master, NetFamily(net), net, source)
    IN /\ master' = r.master
       /\ last' = [op |-> "remove", bcast |-> <<>>, net |-> net, source |-> source,
                   update |-> r.update, flag |-> r.flag]
       /\ RibFrame

RibClear(source) ==
    \E order \in IterOrders(master) :
       LET r == clear(master, source, order)
       IN /\ master' = r.master
          /\ last' = [op |-> "clear", bcast |-> <<>>, source |-> source, order |-> order,
                      update |-> r.updates]
          /\ RibFrame

NextRib ==
    \/ \E n \in RibNets, src \in RibSources : \E a \in RibAttrs(n) : RibInsert(n, src, a)
    \/ \E n \in RibNets, src \in RibSources : RibRemove(n, src)
    \/ \E src \in RibSources : RibClear(src)

SpecRib == InitRib /\ [][NextRib]_vars

\* Call sequences on the RIB, each under one hold of the table lock's owner
\* (no other call in between); `last` keeps the RIB before the sequence and
\* what the calls returned.
\* add_path(p); delete_path(p)
RibAddDelete(net, attrs) ==
    LET a == insert(master, NetFamily(net), net, local_source, UNSPECIFIED,
                    PathAttr(attrs, UNSPECIFIED))
        d == remove(a.master, NetFamily(net), net, local_source)
    IN /\ master' = d.master
       /\ last' = [op |-> "add_delete", bcast |-> <<>>, net |-> net, before |-> master,
                   added |-> a.master, inserted |-> a.update, removed |-> d.update]
       /\ RibFrame

\* insert(x); insert(x') from one source for one prefix, and next to it what
\* insert(x); remove; insert(x') gives from the same RIB
RibReinsert(net, source, x, x2) ==
    LET f == NetFamily(net)
        i1 == insert(master, f, net, source, source.address, PathAttr(x, source.address))
        i2 == insert(i1.master, f, net, source, source.address, PathAttr(x2, source.address))
        r == remove(i1.master, f, net, source)
        i3 == insert(r.master, f, net, source, source.address, PathAttr(x2, source.address))
    IN /\ master' = i2.master
       /\ last' = [op |-> "reinsert", bcast |-> <<>>, net |-> net, source |-> source,
                   x |-> x, x2 |-> x2, before |-> master, via_remove |-> i3.master]
       /\ RibFrame

\* add_path(p); add_path(p), and next to it what one add_path(p) gives
RibAddTwice(net, attrs) ==
    LET once == insert(master, NetFamily(net), net, local_source, UNSPECIFIED,
                       PathAttr(attrs, UNSPECIFIED))
        twice == insert(once.master, NetFamily(net), net, local_source, UNSPECIFIED,
                        PathAttr(attrs, UNSPECIFIED))
    IN /\ master' = twice.master
       /\ last' = [op |-> "add_twice", bcast |-> <<>>, net |-> net, before |-> master,
                   once |-> once.master]
       /\ RibFrame

\* the prefixes of the call sequences: the IPv4 prefix, with every attribute
\* list; the Ipv6Uc map is the one the RIB never gets
SeqNets == {n \in RibNets : NetFamily(n) = "Ipv4Uc"}

NextRibSeq ==
    \/ \E n \in SeqNets, src \in RibSources : \E a \in RibAttrs(n) : RibInsert(n, src, a)
    \/ \E n \in SeqNets, src \in RibSources : RibRemove(n, src)
    \/ \E src \in RibSources : RibClear(src)
    \/ \E n \in SeqNets : \E a \in RibAttrs(n) : RibAddDelete(n, a)
    \/ \E n \in SeqNets, src \in RibSources : \E x, x2 \in RibAttrs(n) : RibReinsert(n, src, x, x2)
    \/ \E n \in SeqNets : \E a \in RibAttrs(n) : RibAddTwice(n, a)

SpecRibSeq == InitRib /\ [][NextRibSeq]_vars

\* the registry after add_peer for a passive peer of any AS and for an
\* IBGP peer the daemon connects to
Configured ==
    Put(Put(EmptyMap, "192.0.2.1", Peer(LocalAs, 0, <<MultiProtocol("Ipv4Uc")>>, TRUE)),
        "192.0.2.2", Peer(LocalAs, LocalAs, <<MultiProtocol("Ipv4Uc")>>, FALSE))

Init == InitWith(FALSE, EmptyMap, Configured, <<"192.0.2.2">>)

Next ==
    \/ \E n \in Nets, a \in ApiAttrs : add_path(NetFamily(n), n, UNSPECIFIED, a)
    \/ \E n \in Nets : delete_path(NetFamily(n), n)
    \/ \E addr \in PeerAddrs : OrchPassive(addr)
    \/ \E s \in SessionIds : SessionStart(s)
    \/ \E s \in SessionIds, open \in OpenMsgs : RecvOpen(s, open)
    \/ \E s \in SessionIds : RecvKeepalive(s)
    \/ \E s \in SessionIds : EstablishTable(s)
    \/ \E s \in SessionIds, a \in PeerAddrs : \E u \in UpdateMsgs(a) : RecvUpdate(s, u)
    \/ \E s \in SessionIds : UpdateWithdraw(s)
    \/ \E s \in SessionIds : UpdateAccept(s)
    \/ \E s \in SessionIds : RecvNotification(s)
    \/ \E s \in SessionIds : RecvMalformed(s)
    \/ \E s \in SessionIds : SessionBroadcast(s)
    \/ \E s \in SessionIds : SessionError(s)
    \/ \E s \in SessionIds : TeardownTable(s)
    \/ \E s \in SessionIds : TeardownGlobal(s)

Spec == Init /\ [][Next]_vars

\* collector mode: the daemon started with --disable-best
InitCollector == InitWith(TRUE, EmptyMap, Configured, <<"192.0.2.2">>)
SpecCollector == InitCollector /\ [][Next]_vars

\* a registry without configured peers and one peer group whose prefix
\* holds every address: each first connection synthesizes the Peer
Groups == Put(EmptyMap, "dynamic", [dynamic_peers |-> <<"0.0.0.0/0">>])

InitDyn == InitWith(FALSE, Groups, EmptyMap, <<>>)

SpecDyn == InitDyn /\ [][Next]_vars

\* a state SpecDyn reaches with two UPDATEs: two connections from 192.0.2.1
\* were accepted (the first synthesized the Peer, the second found it), one
\* session announced 10.0.0.0/24 and the other withdrew it, so the counter
\* of the family is present and 0 and the family map is empty
PairState ==
    /\ master = Put(EmptyMap, "Ipv4Uc", EmptyMap)
    /\ disable_best_path_selection = FALSE
    /\ active_peers = EmptyMap
    /\ as_number = LocalAs
    /\ peers = Put(EmptyMap, "192.0.2.1",
                   [Peer(LocalAs, 0, <<MultiProtocol("Ipv4Uc")>>, FALSE) EXCEPT
                       !.state = "OpenSent", !.accepted = Put(EmptyMap, "Ipv4Uc", 0)])
    /\ peer_group = Groups
    /\ active_tx = <<>>
    /\ expirations = [a \in ConnAddrs |-> 0]
    /\ sessions = [i \in 1..2 |->
                      [Session("192.0.2.1", i = 1) EXCEPT
                          !.source.local_as = LocalAs, !.state = "OpenSent", !.pc = "loop"]]

InitPair == PairState /\ overflow_checks = "undetermined" /\ MainRunning /\ events = 0 /\ list_task = NoListTask /\ last = NoLast

\* the two session tasks and the control API from there on (no further
\* connection: both tasks the model follows are taken)
NextPair ==
    \/ \E n \in Nets, a \in ApiAttrs : add_path(NetFamily(n), n, UNSPECIFIED, a)
    \/ \E n \in Nets : delete_path(NetFamily(n), n)
    \/ \E s \in SessionIds, open \in OpenMsgs : RecvOpen(s, open)
    \/ \E s \in SessionIds : RecvKeepalive(s)
    \/ \E s \in SessionIds : EstablishTable(s)
    \/ \E s \in SessionIds, a \in PeerAddrs : \E u \in UpdateMsgs(a) : RecvUpdate(s, u)
    \/ \E s \in SessionIds : UpdateWithdraw(s)
    \/ \E s \in SessionIds : UpdateAccept(s)
    \/ \E s \in SessionIds : RecvNotification(s)
    \/ \E s \in SessionIds : RecvMalformed(s)
    \/ \E s \in SessionIds : SessionBroadcast(s)
    \/ \E s \in SessionIds : SessionError(s)
    \/ \E s \in SessionIds : TeardownTable(s)
    \/ \E s \in SessionIds : TeardownGlobal(s)

SpecPair == InitPair /\ [][NextPair]_vars

\* The daemon from the start of main: with or without --as-number, no
\* --router-id, --any-peers, an empty registry; the control API sets the AS
\* and adds peers, the orchestrator schedules, connects and accepts.
InitMain ==
    /\ master = EmptyMap
    /\ disable_best_path_selection = FALSE
    /\ active_peers = EmptyMap
    /\ asn \in {0, LocalAs}
    /\ as_number = asn
    /\ id = UNSPECIFIED
    /\ init_tx = {}
    /\ main_pc = "init"
    /\ attempts = NoAttempts
    /\ peers = EmptyMap
    /\ peer_group = Groups
    /\ active_tx = <<>>
    /\ expirations = [a \in ConnAddrs |-> 0]
    /\ sessions = <<>>
    /\ overflow_checks = "undetermined"
    /\ events = 0
    /\ list_task = NoListTask
    /\ last = NoLast

\* the texts the control API is given for an address or a router id
AddrTexts == {"192.0.2.1", "not-an-address"}
RouterIdTexts == {RouterId, "not-an-address"}
\* the address that connects and is connected to
MainAddrs == {"192.0.2.1"}

\* the OPENs of the peer, with a hold time below, at and above HOLDTIME
MainOpenMsgs == {[Open(OtherAs, <<MultiProtocol("Ipv4Uc")>>) EXCEPT !.holdtime = h] :
                    h \in {0, 1, 2, 30, HOLDTIME, DEFAULT_HOLD_TIME}}

NextMain ==
    \/ MainStart
    \/ \E as \in {0, LocalAs}, r \in RouterIdTexts : start_bgp(as, r)
    \/ \E t \in AddrTexts, passive \in BOOLEAN, hold \in {0, 30} :
          add_peer(t, OtherAs, <<MultiProtocol("Ipv4Uc")>>, passive, hold)
    \/ \E s \in SessionIds, open \in MainOpenMsgs : RecvOpen(s, open)
    \/ OrchQueue
    \/ \E a \in MainAddrs : OrchActiveSkip(a)
    \/ \E a \in MainAddrs : OrchConnectFail(a)
    \/ \E a \in MainAddrs : OrchConnect(a)
    \/ \E a \in MainAddrs : OrchPassive(a)
    \/ \E s \in SessionIds : SessionStart(s)
    \/ \E s \in SessionIds : RecvKeepalive(s)
    \/ \E s \in SessionIds : EstablishTable(s)
    \/ \E s \in SessionIds : SessionError(s)
    \/ \E s \in SessionIds : TeardownTable(s)
    \/ \E s \in SessionIds : TeardownGlobal(s)

SpecMain == InitMain /\ [][NextMain]_vars

\* The orchestrator under fair scheduling: the timer of an entry of the
\* delay queue fires and main, which blocks only on fair locks and on a
\* connect that ends, handles the Active event.  An inbound connection
\* arrives only while there is no session task, which leaves the connects
\* one of the session tasks the model follows.
NextMainLive ==
    \/ MainStart
    \/ \E as \in {0, LocalAs}, r \in RouterIdTexts : start_bgp(as, r)
    \/ \E t \in AddrTexts, passive \in BOOLEAN :
          add_peer(t, OtherAs, <<MultiProtocol("Ipv4Uc")>>, passive, 0)
    \/ OrchQueue
    \/ \E a \in MainAddrs : OrchActiveSkip(a)
    \/ \E a \in MainAddrs : OrchConnectFail(a)
    \/ \E a \in MainAddrs : OrchConnect(a)
    \/ \E a \in MainAddrs : sessions = <<>> /\ OrchPassive(a)
    \/ \E s \in SessionIds : SessionStart(s)
    \/ \E s \in SessionIds : RecvKeepalive(s)
    \/ \E s \in SessionIds : EstablishTable(s)
    \/ \E s \in SessionIds : SessionError(s)
    \/ \E s \in SessionIds : TeardownTable(s)
    \/ \E s \in SessionIds : TeardownGlobal(s)

ActiveEvent(a) == OrchActiveSkip(a) \/ OrchConnectFail(a) \/ OrchConnect(a)

SpecMainLive ==
    /\ InitMain
    /\ [][NextMainLive]_vars
    /\ \A a \in MainAddrs : WF_vars(ActiveEvent(a))

(***************************************************************************)
(* update_attrs on its own: the stored attribute lists it is given and one  *)
(* action that applies it.  The call and its result are kept in `last`.     *)
(***************************************************************************)
\* stored attribute lists, in the order of the attribute codes.  An AS path
\* has up to MaxSegments segments, sequences or sets, of 1, 254 or 255
\* entries; the entries of the i-th segment are all the AS number
\* OtherAs + i, which tells the segments of one path apart
StoredAttrs ==
    LET StoredSegment(t, len, i) == Segment(t, [k \in 1..len |-> OtherAs + i])
        RECURSIVE SegmentLists(_)
        SegmentLists(n) ==
            IF n = 0 THEN {<<>>}
            ELSE SegmentLists(n - 1)
                    \cup {Append(l, StoredSegment(t, len, n)) :
                             l \in {x \in SegmentLists(n - 1) : Len(x) = n - 1},
                             t \in {TYPE_SEQ, TYPE_SET}, len \in {1, 254, 255}}
    IN {<<Origin(0)>> \o aspath \o med \o pref :
           aspath \in {<<>>} \cup {<<AsPath(l)>> : l \in SegmentLists(MaxSegments)},
           med \in {<<>>, <<MultiExitDesc(10)>>},
           pref \in {<<>>, <<LocalPref(200)>>}}

InitAttrs ==
    /\ master = EmptyMap
    /\ disable_best_path_selection = FALSE
    /\ active_peers = EmptyMap
    /\ as_number = LocalAs
    /\ peers = EmptyMap
    /\ peer_group = EmptyMap
    /\ active_tx = <<>>
    /\ expirations = [a \in ConnAddrs |-> 0]
    /\ sessions = <<>>
    /\ overflow_checks = "undetermined"
    /\ MainRunning
    /\ events = 0
    /\ list_task = NoListTask
    /\ \E is_ibgp \in BOOLEAN, nlri \in RibNets, attrs \in StoredAttrs :
          last = [op |-> "stored", bcast |-> <<>>, is_ibgp |-> is_ibgp,
                  nlri |-> nlri, attrs |-> attrs]

\* the call send_update makes for a NewBest of the stored path, for a peer
\* whose Source has the given ibgp flag
UpdateAttrs ==
    /\ last.op = "stored"
    /\ last' = [op |-> "update_attrs", bcast |-> <<>>, is_ibgp |-> last.is_ibgp,
                nlri |-> last.nlri, attrs |-> last.attrs,
                out |-> update_attrs(last.is_ibgp, NetFamily(last.nlri) = "Ipv6Uc",
                                     LocalAs, last.nlri, "192.0.2.1", LocalAddr, last.attrs)]
    /\ UNCHANGED <<master, disable_best_path_selection, active_peers, globalVars,
                   expirations, sessions, overflow_checks, mainVars, list_task, attempts, events>>

NextAttrs == UpdateAttrs

SpecAttrs == InitAttrs /\ [][NextAttrs]_vars

(***************************************************************************)
(* The RIB, the API that changes it and one list_path call at a time.       *)
(***************************************************************************)
ListNets == {"10.0.0.0/24", "10.0.1.0/24"}

InitList == InitWith(FALSE, EmptyMap, Configured, <<>>)

NextList ==
    \/ \E n \in ListNets, a \in SessAttrs : add_path(NetFamily(n), n, UNSPECIFIED, a)
    \/ \E n \in ListNets : delete_path(NetFamily(n), n)
    \/ ListPath("Ipv4Uc")
    \/ ListPathSend
    \/ ListPathSendErr
    \/ ClientRecv
    \/ ClientDrop

SpecList == InitList /\ [][NextList]_vars

(***************************************************************************)
(* Properties.                                                              *)
(***************************************************************************)
\* the entry list of a destination <<family, net>>
Entry(d) == master[d[1]][d[2]]

\* a is strictly better than b under the ordered comparison chain: the first
\* criterion on which they differ decides
Better(a, b) ==
    \/ get_local_preference(a) > get_local_preference(b)
    \/ /\ get_local_preference(a) = get_local_preference(b)
       /\ \/ get_as_len(a) < get_as_len(b)
          \/ /\ get_as_len(a) = get_as_len(b)
             /\ \/ get_origin(a) < get_origin(b)
                \/ /\ get_origin(a) = get_origin(b)
                   /\ get_med(a) < get_med(b)

\* C1: with best-path selection enabled, after any sequence of insert, remove
\* and clear, no entry at an index above 0 of a destination is strictly
\* better than entry[0] under the ordered comparison chain (LocalPref, then
\* AS-path length, then Origin, then MED).
C1_BestFirst ==
    ~disable_best_path_selection =>
        \A d \in Dests(master) :
            \A i \in 2..Len(Entry(d)) : ~Better(Entry(d)[i], Entry(d)[1])

\* C2: after any sequence of insert, remove and clear, every destination of
\* the RIB has a non-empty entry list whose paths have pairwise distinct
\* source addresses.
C2_DistinctSources ==
    \A d \in Dests(master) :
        /\ Len(Entry(d)) > 0
        /\ \A i, j \in 1..Len(Entry(d)) :
              i # j => Entry(d)[i].source.address # Entry(d)[j].source.address

\* C2's case: a destination with a path from every source, right after an
\* insert that replaced the path of its source
C2_Witness ==
    /\ last.op = "insert"
    /\ ~last.flag
    /\ Len(master[NetFamily(last.net)][last.net]) = Cardinality(RibSources)

\* the sessions that poll the receiver paired with the sender stored in
\* active_peers, once they have consumed everything queued on it
Drained ==
    {s \in DOMAIN sessions :
        /\ sessions[s].pc = "loop"
        /\ sessions[s].rx = <<>>
        /\ sessions[s].addr \in DOMAIN active_peers
        /\ active_peers[sessions[s].addr].tx = s}

\* C3: with best-path selection enabled, for every active peer P that has
\* consumed its channel and every prefix N of a family P negotiated: if the
\* RIB holds a destination for N whose entry[0] is neither learned from P
\* nor IBGP-suppressed for P, the last update written to P for N announces
\* that entry[0]; if the RIB holds no destination for N, the last update
\* written to P for N, if any, is a withdrawal.
C3_SnapshotThenDeltas ==
    ~disable_best_path_selection =>
        \A s \in Drained : \A n \in Nets :
            is_family_enabled(sessions[s], n) =>
                IF <<NetFamily(n), n>> \in Dests(master)
                THEN LET best == master[NetFamily(n)][n][1]
                     IN (/\ best.source.address # sessions[s].addr
                         /\ ~(best.source.ibgp /\ sessions[s].source.ibgp))
                        => sessions[s].written[n] =
                              [kind |-> "NewBest", nexthop |-> best.nexthop, attrs |-> best.attrs]
                ELSE sessions[s].written[n].kind # "NewBest"

\* the peers configured with the local AS as remote_as: IBGP peers whatever
\* they send
IbgpConfigured == {a \in DOMAIN Configured : Configured[a].remote_as = LocalAs}

\* C4: a route learned from an IBGP peer A is never announced to another
\* IBGP peer B: no update written to a session whose Source is IBGP announces
\* a path made from an UPDATE of another peer configured as IBGP, whether
\* it comes from a broadcast or from the initial dump.
C4_NoIbgpToIbgp ==
    \A s \in DOMAIN sessions : \A n \in Nets :
        LET w == sessions[s].written[n]
        IN ~(/\ sessions[s].source.ibgp
             /\ w.kind = "NewBest"
             /\ w.attrs.arc \in IbgpConfigured
             /\ w.attrs.arc # sessions[s].addr)

\* the session tasks that have not ended
Running == {s \in DOMAIN sessions : sessions[s].pc \notin {"done", "panicked"}}

\* C6: in every reachable state, an address is a key of active_peers if and
\* only if a running session for that address is in state Established, and
\* the sender stored there is paired with the receiver of such a session.
C6_ActiveIffEstablished ==
    \A a \in PeerAddrs :
        /\ a \in DOMAIN active_peers <=>
              \E s \in Running : sessions[s].addr = a /\ sessions[s].state = "Established"
        /\ a \in DOMAIN active_peers =>
              /\ active_peers[a].tx \in Running
              /\ sessions[active_peers[a].tx].addr = a
              /\ sessions[active_peers[a].tx].state = "Established"

\* the steps of the FSM the session task may take
FsmSteps == {<<"Idle", "OpenSent">>, <<"OpenSent", "OpenConfirm">>,
             <<"OpenConfirm", "Established">>}

\* C7: the states of a session task are a prefix of OpenSent, OpenConfirm,
\* Established: every change of a session's state is the next step of that
\* sequence, so Established is entered only from OpenConfirm and no message
\* moves a session back.
C7_FsmOrder ==
    [][\A s \in DOMAIN sessions :
          sessions'[s].state # sessions[s].state =>
              <<sessions[s].state, sessions'[s].state>> \in FsmSteps]_vars

\* the addresses broadcast has to send to, and the C5 statement for one call
Targets(b) ==
    {a \in DOMAIN b.ap :
        a # b.from.address /\ ~(b.from.ibgp /\ b.ap[a].source.ibgp)}
ExactlyOnce(b) ==
    /\ \A a \in DOMAIN b.ap :
          LET s == b.ap[a].tx
          IN IF a \in Targets(b)
             THEN b.after[s] = Append(b.before[s], b.msg)
             ELSE b.after[s] = b.before[s]
    /\ \A s \in DOMAIN b.before :
          (\A a \in DOMAIN b.ap : b.ap[a].tx # s) => b.after[s] = b.before[s]

\* the same for the entries whose receiver is still held by a task: a send
\* on a channel whose receiver was dropped queues nothing
OnceIfHeld(b) ==
    /\ \A a \in DOMAIN b.ap :
          LET s == b.ap[a].tx
          IN IF a \in Targets(b) /\ s \in b.held
             THEN b.after[s] = Append(b.before[s], b.msg)
             ELSE b.after[s] = b.before[s]
    /\ \A s \in DOMAIN b.before :
          (\A a \in DOMAIN b.ap : b.ap[a].tx # s) => b.after[s] = b.before[s]

\* C5: every broadcast(from, update) puts exactly one copy of the update on
\* the channel of each active_peers entry whose address is not from.address
\* and that is not an IBGP target of an IBGP source, and nothing on any
\* other channel.
C5_BroadcastTargets ==
    \A i \in 1..Len(last.bcast) : ExactlyOnce(last.bcast[i])

\* the sessions whose OPEN was refused for its AS
Refused == {s \in DOMAIN sessions : sessions[s].notif = "OpenMessageBadPeerAs"}

\* C8: an OPEN whose AS differs from a non-zero remote_as of the peer record
\* is answered with NOTIFICATION(OpenMessageBadPeerAs) and ends the loop;
\* from then on the session changes neither its state nor remote_as, is not
\* added to active_peers, only takes its teardown steps, and its teardown
\* resets the record and sends the address on active_tx unless the peer is
\* passive.
C8_BadPeerAs ==
    [][/\ (/\ last'.op = "recv"
            /\ last'.msg.type = "Open"
            /\ peers[sessions[last'.s].addr].remote_as \notin {0, last'.msg.as})
           => /\ last'.s \in Refused'
              /\ sessions'[last'.s].pc = "teardown"
              /\ sessions'[last'.s].state = sessions[last'.s].state
              /\ peers'[sessions[last'.s].addr].remote_as
                    = peers[sessions[last'.s].addr].remote_as
              /\ active_peers' = active_peers
       /\ \A s \in Refused :
             LET a == sessions[s].addr
             IN /\ sessions[s].pc \in {"teardown", "reset", "done"}
                /\ sessions'[s].state = sessions[s].state
                /\ peers'[a].remote_as = peers[a].remote_as
                /\ \A x \in DOMAIN active_peers' :
                      active_peers'[x].tx = s =>
                          x \in DOMAIN active_peers /\ active_peers[x].tx = s
                /\ (sessions[s].pc = "reset" /\ sessions'[s].pc = "done") =>
                      /\ peers'[a].state = "Idle"
                      /\ peers'[a].accepted = EmptyMap
                      /\ peers'[a].remote_cap = <<>>
                      /\ active_tx' = IF peers[a].passive THEN active_tx
                                      ELSE Append(active_tx, a)]_vars

\* C8's case: the teardown of a refused session of the peer the daemon
\* connects to has run
C8_Witness ==
    \E s \in Refused :
        /\ sessions[s].pc = "done"
        /\ ~peers[sessions[s].addr].passive
        /\ Configured[sessions[s].addr].remote_as # 0
        /\ Len(active_tx) > 1

\* the paths of an entry list that are not from the address
Others(entry, address) == SelectSeq(entry, LAMBDA p : p.source.address # address)

\* what clear(source) has to return for the table m, as a set: a Withdrawn
\* for each destination that only held the source's path, a NewBest of the
\* new head for each destination whose head was the source's path
ClearUpdates(m, source) ==
    {Withdrawn(d[2], source) :
        d \in {x \in Dests(m) : Others(m[x[1]][x[2]], source.address) = <<>>}}
    \cup
    {NewBest(d[2], Others(m[d[1]][d[2]], source.address)[1].nexthop,
             Others(m[d[1]][d[2]], source.address)[1].attrs, source) :
        d \in {x \in Dests(m) :
                  /\ m[x[1]][x[2]][1].source.address = source.address
                  /\ Others(m[x[1]][x[2]], source.address) # <<>>}}

\* C9: the RIB section of a session's teardown removes the session's
\* address from active_peers, removes every path from that address and
\* nothing else, and broadcasts each TableUpdate clear returns, once, in
\* that section, to the peers left in active_peers (those whose receiver is
\* still held get one copy); right after it no destination holds a path
\* from the address.
C9_Teardown ==
    [][\A s \in DOMAIN sessions :
          (sessions[s].pc = "teardown" /\ sessions'[s].pc = "reset") =>
              LET a == sessions[s].addr
                  src == sessions[s].source
                  want == ClearUpdates(master, src)
              IN /\ a \notin DOMAIN active_peers'
                 /\ \A x \in DOMAIN active_peers \ {a} :
                       x \in DOMAIN active_peers' /\ active_peers'[x] = active_peers[x]
                 /\ \A d \in Dests(master') :
                       \A i \in 1..Len(master'[d[1]][d[2]]) :
                           master'[d[1]][d[2]][i].source.address # a
                 /\ \A d \in Dests(master) :
                       IF Others(master[d[1]][d[2]], a) = <<>>
                       THEN d \notin Dests(master')
                       ELSE /\ d \in Dests(master')
                            /\ master'[d[1]][d[2]] = Others(master[d[1]][d[2]], a)
                 /\ Dests(master') \subseteq Dests(master)
                 /\ {last'.bcast[i].msg : i \in 1..Len(last'.bcast)} = want
                 /\ Len(last'.bcast) = Cardinality(want)
                 /\ \A i \in 1..Len(last'.bcast) :
                       /\ last'.bcast[i].from = src
                       /\ last'.bcast[i].ap = active_peers'
                       /\ OnceIfHeld(last'.bcast[i])]_vars

\* C9's case: a teardown has just cleared the path of its session and
\* queued the update on the channel of another peer
C9_Witness ==
    /\ last.op = "teardown"
    /\ sessions[last.s].pc = "reset"
    /\ \E i \in 1..Len(last.bcast) :
          \E t \in DOMAIN last.bcast[i].after :
              last.bcast[i].after[t] # last.bcast[i].before[t]

\* C10: the registry section of the teardown of a session of a non-dynamic
\* peer leaves the peer record Idle with accepted and remote_cap empty, and
\* sends the address on active_tx if and only if the peer is not passive.
C10_Reset ==
    [][\A s \in DOMAIN sessions :
          (/\ sessions[s].pc = "reset"
           /\ sessions'[s].pc = "done"
           /\ ~sessions[s].is_dynamic) =>
              LET a == sessions[s].addr
              IN /\ peers'[a].state = "Idle"
                 /\ peers'[a].accepted = EmptyMap
                 /\ peers'[a].remote_cap = <<>>
                 /\ peers[a].passive => active_tx' = active_tx
                 /\ ~peers[a].passive => active_tx' = Append(active_tx, a)]_vars

\* C10's case: the teardown of a session that had negotiated a family (so
\* remote_cap was set) has run, for a peer the daemon connects to
C10_Witness ==
    \E s \in DOMAIN sessions :
        /\ sessions[s].pc = "done"
        /\ ~sessions[s].is_dynamic
        /\ sessions[s].families # {}
        /\ ~peers[sessions[s].addr].passive
        /\ active_tx = <<sessions[s].addr, sessions[s].addr>>

\* the addresses some session of the model is for, and those whose sessions
\* have all ended (by teardown or by the death of the task)
Connecting == {sessions[s].addr : s \in DOMAIN sessions}
AllEnded == {a \in Connecting : \A s \in Running : sessions[s].addr # a}

\* C11: with no configured peer (every Peer record is synthesized for a
\* dynamic neighbor), once every session from an address has ended the
\* registry holds no Peer record for that address.
C11_DynamicRemoved == \A a \in AllEnded : a \notin DOMAIN peers

\* C12: when the bytes received from a peer cannot be decoded as a BGP
\* message, the session is closed: the step that takes the malformed bytes
\* leaves the session task at its teardown.
C12_DecodeErrorCloses ==
    [][last'.op = "malformed" => sessions'[last'.s].pc = "teardown"]_vars

\* the index (0 when none) of the path of the address in the entry list of
\* the destination in the table m
IndexOf(m, net, address) ==
    IF NetFamily(net) \in DOMAIN m /\ net \in DOMAIN m[NetFamily(net)]
    THEN FirstSource(m[NetFamily(net)][net], address)
    ELSE 0

\* the update an insert returned is a NewBest
ReturnsNewBest(l) == Len(l.update) = 1 /\ l.update[1].kind = "NewBest"

\* C13 (as stated): insert returns a NewBest update if and only if best-path
\* selection is enabled and the newly inserted path lands at index 0 of the
\* destination's entry list; in every other case it returns no update.
C13_NewBestIffLandsFirst ==
    [][last'.op = "insert" =>
          /\ ReturnsNewBest(last') <=>
                (/\ ~disable_best_path_selection
                 /\ IndexOf(master', last'.net, last'.source.address) = 1)
          /\ ~ReturnsNewBest(last') => last'.update = <<>>]_vars

\* C13 (amended): insert returns a NewBest update if and only if best-path
\* selection is enabled and either the newly inserted path lands at index 0
\* or the path it replaces was at index 0; in every other case it returns
\* no update.
C13_NewBestIffHeadChanges ==
    [][last'.op = "insert" =>
          /\ ReturnsNewBest(last') <=>
                (/\ ~disable_best_path_selection
                 /\ \/ IndexOf(master', last'.net, last'.source.address) = 1
                    \/ IndexOf(master, last'.net, last'.source.address) = 1)
          /\ ~ReturnsNewBest(last') => last'.update = <<>>]_vars

\* C13's case: an insert has replaced the source's path at index 0 by one
\* that landed behind another path, and returned a NewBest
C13_Witness ==
    /\ last.op = "insert"
    /\ ReturnsNewBest(last)
    /\ ~last.flag
    /\ IndexOf(master, last.net, last.source.address) > 1

\* the entry list of the prefix in the table m, empty when the table has no
\* such destination
EntryOf(m, net) ==
    IF NetFamily(net) \in DOMAIN m /\ net \in DOMAIN m[NetFamily(net)]
    THEN m[NetFamily(net)][net]
    ELSE <<>>

\* C14: remove(family, nlri, source) removes the path from source.address if
\* one exists and leaves every other path and their order unchanged; it
\* returns (Withdrawn, true) and deletes the destination when the list
\* becomes empty, (NewBest of the new entry[0], true) when index 0 was removed
\* and paths remain, (None, true) when a path behind index 0 was removed, and
\* (None, false) without changing the RIB when the source has no path for
\* the prefix.
C14_Remove ==
    [][last'.op = "remove" =>
          LET net == last'.net
              a == last'.source.address
              before == EntryOf(master, net)
              after == EntryOf(master', net)
              i == FirstSource(before, a)
          IN /\ after = Others(before, a)
             /\ after = <<>> => net \notin DOMAIN Get(master', NetFamily(net), EmptyMap)
             /\ Dests(master') \ {<<NetFamily(net), net>>} = Dests(master) \ {<<NetFamily(net), net>>}
             /\ \A d \in Dests(master) \ {<<NetFamily(net), net>>} :
                   master'[d[1]][d[2]] = master[d[1]][d[2]]
             /\ i = 0 => master' = master /\ last'.update = <<>> /\ ~last'.flag
             /\ i # 0 => last'.flag
             /\ (i # 0 /\ after = <<>>) => last'.update = <<Withdrawn(net, last'.source)>>
             /\ (i = 1 /\ after # <<>>) =>
                   last'.update = <<NewBest(net, after[1].nexthop, after[1].attrs, after[1].source)>>
             /\ i > 1 => last'.update = <<>>]_vars

\* C14's case: a remove has taken the path at index 0 of a destination with
\* three paths and returned the NewBest of the new head
C14_Witness ==
    /\ last.op = "remove"
    /\ last.flag
    /\ Len(last.update) = 1 /\ last.update[1].kind = "NewBest"
    /\ Len(EntryOf(master, last.net)) = Cardinality(RibSources) - 1

\* the address family number of a family (AFI: 1 for IPv4, 2 for IPv6), the
\* order of the families
FamilyRank(family) == IF family = "Ipv4Uc" THEN 1 ELSE 2

\* what clear(source) leaves in the RIB and returns, the order of the
\* updates aside: every destination keeps its paths from other addresses in
\* their order, the emptied ones are gone, and the updates are one
\* Withdrawn per emptied destination and one NewBest per destination that
\* lost its head and keeps paths
ClearContract ==
    last'.op = "clear" =>
        /\ DOMAIN master' = DOMAIN master
        /\ \A d \in Dests(master) :
              EntryOf(master', d[2]) = Others(Entry(d), last'.source.address)
        /\ Dests(master') = {d \in Dests(master) : Others(Entry(d), last'.source.address) # <<>>}
        /\ {last'.update[i] : i \in 1..Len(last'.update)} = ClearUpdates(master, last'.source)
        /\ Len(last'.update) = Cardinality(ClearUpdates(master, last'.source))
ClearUnordered == [][ClearContract]_vars

\* C15: clear(source) removes every path whose source.address equals
\* source.address from every family and destination, deletes exactly the
\* destinations that became empty, leaves all other paths and their order
\* unchanged, and returns exactly one Withdrawn for each destination emptied
\* and one NewBest for each destination whose head was removed while other
\* paths remain, in family-then-prefix order.
C15_ClearOrdered ==
    [][/\ ClearContract
       /\ last'.op = "clear" =>
             \A i, j \in 1..Len(last'.update) :
                 i < j => FamilyRank(NetFamily(last'.update[i].nlri))
                            < FamilyRank(NetFamily(last'.update[j].nlri))]_vars

\* the update is a Withdrawn
ReturnsWithdrawn(update) == Len(update) = 1 /\ update[1].kind = "Withdrawn"

\* add_path's insert returned the NewBest of a path that is the only one of
\* its destination
InsertedSoleBest(l) ==
    /\ Len(l.inserted) = 1 /\ l.inserted[1].kind = "NewBest"
    /\ Len(EntryOf(l.added, l.net)) = 1

C17_ReinsertIsRemoveInsert ==
    [][last'.op = "reinsert" => master' = last'.via_remove]_vars

\* C17's case: x and a different x' inserted for a prefix that two other
\* sources hold paths for, the path of x' landing behind another one
C17_Witness ==
    /\ last.op = "reinsert"
    /\ last.x # last.x2
    /\ Len(EntryOf(master, last.net)) = Cardinality(RibSources)
    /\ IndexOf(master, last.net, last.source.address) > 1

\* C18: add_path is idempotent on the RIB: for any RIB state, calling
\* add_path(p) twice leaves the same destinations with the same entry order
\* and the same entry[0] as calling add_path(p) once.
C18_AddPathIdempotent ==
    [][last'.op = "add_twice" => master' = last'.once]_vars

\* C18's case: add_path twice for a prefix that two peers hold paths for,
\* the local path landing behind another one
C18_Witness ==
    /\ last.op = "add_twice"
    /\ Len(EntryOf(master, last.net)) = Cardinality(RibSources)
    /\ IndexOf(master, last.net, local_source.address) > 1

\* C19: in collector mode (disable_best_path_selection true) nothing is
\* broadcast: no RIB operation (insert, remove, clear on teardown, initial
\* dump) ever puts a TableUpdate on any peer's channel or writes an UPDATE to
\* any peer.
C19_CollectorSilent ==
    disable_best_path_selection =>
        \A s \in DOMAIN sessions :
            /\ sessions[s].rx = <<>>
            /\ \A n \in Nets : sessions[s].written[n] = NotWritten

\* the number of paths of the family in the RIB whose source.address is the
\* address
PathsFrom(address, family) ==
    LET t == Get(master, family, EmptyMap)
    IN Cardinality({x \in UNION {{<<n, i>> : i \in 1..Len(t[n])} : n \in DOMAIN t} :
                       t[x[1]][x[2]].source.address = address})

\* every session task is at the top of its loop, not yet started or gone
\* through its teardown: none is inside a handler, between the two sections
\* of its teardown, or dead of a panic
Quiescent == \A s \in DOMAIN sessions : sessions[s].pc \in {"start", "loop", "done"}

\* C20: whenever no session task is in the middle of processing an UPDATE
\* (nor in the middle of any other handler or of its teardown), for every
\* peer P and family F the value peer.accepted[F] (0 when absent) equals the
\* number of RIB paths in family F whose source.address is P, for any
\* interleaving of sessions and teardowns.
C20_AcceptedCountsPaths ==
    Quiescent =>
        \A a \in DOMAIN peers : \A f \in {"Ipv4Uc", "Ipv6Uc"} :
            Get(peers[a].accepted, f, 0) = PathsFrom(a, f)

\* the delta the accept section of session s is about to apply to the family
PendingDelta(s, family) ==
    IF family = "Ipv4Uc" THEN sessions[s].upd.accept_v4 ELSE sessions[s].upd.accept_v6

\* C21: the accepted counter never underflows: whenever update_accepted
\* applies a negative delta to a family, the stored count is at least the
\* magnitude of the delta or the family is absent (and the delta is ignored).
C21_NoUnderflow ==
    [][\A s \in DOMAIN sessions :
          (/\ sessions[s].pc = "upd_accept"
           /\ sessions'[s].pc # "upd_accept"
           /\ sessions[s].addr \in DOMAIN peers) =>
              \A f \in {"Ipv4Uc", "Ipv6Uc"} :
                  (/\ PendingDelta(s, f) < 0
                   /\ f \in DOMAIN peers[sessions[s].addr].accepted
                   /\ peers[sessions[s].addr].accepted[f] >= 0) =>
                      peers[sessions[s].addr].accepted[f] >= 0 - PendingDelta(s, f)]_vars

\* the step is one of the orchestrator's loop: a connection is accepted or
\* made and a task spawned, or an Active event is handled, or an address
\* is scheduled
OrchestratorStep ==
    \/ Len(sessions') > Len(sessions)
    \/ attempts' # attempts
    \/ expirations' # expirations

\* C22: the orchestrator never accepts a connection, attempts an outbound
\* connect or spawns a session task while the global AS number is 0: its
\* loop starts only if the command line gave a non-zero AS number or after a
\* start_bgp call has succeeded.
C22_NoLoopBeforeAs ==
    [][/\ OrchestratorStep => (main_pc = "loop" /\ as_number # 0)
       /\ main_pc' = "loop" => as_number' # 0
       /\ (main_pc # "loop" /\ main_pc' = "loop") =>
             \/ asn # 0
             \/ "start_bgp" \in init_tx
             \/ last'.op = "start_bgp" /\ last'.result = "Ok"]_vars

\* C22's case: the daemon was started without an AS number, start_bgp has
\* released the barrier and the orchestrator has spawned a session task
C22_Witness ==
    /\ asn = 0
    /\ main_pc = "loop"
    /\ Len(sessions) > 0

\* C23: start_bgp fails when the daemon is already started (global AS
\* non-zero), when the requested AS is 0, or when the router-id is not a
\* valid IPv4 address; in every failing case the global AS number and
\* router-id are unchanged and the start barrier is not released; a call
\* succeeds only while the global AS is 0 and leaves it non-zero for good, so
\* at most one start_bgp call ever succeeds.
C23_StartBgp ==
    [][/\ last'.op = "start_bgp" =>
             /\ (as_number # 0 \/ last'.as = 0 \/ last'.router_id # RouterId) =>
                   last'.result # "Ok"
             /\ last'.result # "Ok" =>
                   /\ as_number' = as_number
                   /\ id' = id
                   /\ init_tx' = init_tx
                   /\ main_pc' = main_pc
             /\ last'.result = "Ok" => (as_number = 0 /\ as_number' # 0)
       /\ as_number # 0 => as_number' = as_number]_vars

\* C23's case: a start_bgp call has started the daemon and a second call
\* with valid arguments has failed
C23_Witness ==
    /\ asn = 0
    /\ as_number # 0
    /\ last.op = "start_bgp"
    /\ last.as # 0
    /\ last.router_id = RouterId
    /\ last.result = "already started"

\* C24: add_peer for an address already in the registry (configured or
\* dynamically synthesized) returns AlreadyExists, leaves the existing Peer
\* record unchanged and sends nothing on active_tx; add_peer for a new valid
\* address inserts exactly one Peer record and sends its address on
\* active_tx if and only if the peer is not passive; add_peer with an
\* unparsable address returns an invalid-address error and changes nothing.
C24_AddPeer ==
    [][last'.op = "add_peer" =>
          LET a == last'.neighbor_address
          IN IF a \notin ConnAddrs
             THEN /\ last'.result = "InvalidAddress"
                  /\ peers' = peers /\ active_tx' = active_tx
             ELSE IF a \in DOMAIN peers
             THEN /\ last'.result = "AlreadyExists"
                  /\ peers' = peers /\ active_tx' = active_tx
             ELSE /\ last'.result = "Ok"
                  /\ DOMAIN peers' = DOMAIN peers \cup {a}
                  /\ \A x \in DOMAIN peers : peers'[x] = peers[x]
                  /\ active_tx' = IF last'.passive THEN active_tx ELSE Append(active_tx, a)]_vars

\* C28: when an Active event surfaces for an address that is a key of
\* active_peers, the orchestrator attempts no TCP connect, spawns no session
\* task and does not reschedule the address.
C28_ActiveSkip ==
    [][\A a \in ConnAddrs :
          (attempts'[a].surfaced > attempts[a].surfaced /\ a \in DOMAIN active_peers) =>
              /\ attempts'[a].connects = attempts[a].connects
              /\ sessions' = sessions
              /\ expirations'[a] = expirations[a] - 1
              /\ \A x \in ConnAddrs \ {a} : expirations'[x] = expirations[x]
              /\ active_tx' = active_tx]_vars

\* C28's case: an Active event for an address of active_peers has been
\* handled without a connect
C28_Witness ==
    \E a \in DOMAIN active_peers :
        /\ attempts[a].surfaced > attempts[a].connects
        /\ expirations[a] = 0

AsPathOf(attrs) == SelectSeq(attrs, LAMBDA a : a.attr = AS_PATH)

\* local_as put in front of the stored segments: into the first segment when
\* that is a sequence with room, as a new sequence otherwise
Prepended(segs, local_as) ==
    IF segs = <<>> THEN <<Segment(TYPE_SEQ, <<local_as>>)>>
    ELSE IF segs[1].segment_type = TYPE_SEQ /\ Len(segs[1].number) < 255
    THEN [segs EXCEPT ![1].number = <<local_as>> \o @]
    ELSE <<Segment(TYPE_SEQ, <<local_as>>)>> \o segs

\* C26: for an EBGP peer update_attrs puts local_as in front of the stored
\* AS path: alone when the path is empty, into the first stored segment when
\* that is an AS_SEQUENCE of fewer than 255 entries, as a new AS_SEQUENCE
\* otherwise; the stored segments follow in their original order
C26_PrependLocalAs ==
    (last.op = "update_attrs" /\ ~last.is_ibgp /\ AsPathOf(last.attrs) # <<>>)
        => AsPathOf(last.out.v \o last.out.n)
              = <<AsPath(Prepended(AsPathOf(last.attrs)[1].segments, LocalAs))>>

\* the same, for the stored paths of at most one segment
C26_PrependSingleSegment ==
    (/\ last.op = "update_attrs" /\ ~last.is_ibgp /\ AsPathOf(last.attrs) # <<>>
     /\ Len(AsPathOf(last.attrs)[1].segments) <= 1)
        => AsPathOf(last.out.v \o last.out.n)
              = <<AsPath(Prepended(AsPathOf(last.attrs)[1].segments, LocalAs))>>

\* what the RIB announces to the peer whose Source is my for a destination:
\* the first path of its entry list, unless that path was learned from the
\* peer or both are IBGP, with the attributes update_attrs makes for the peer
Announced(my, net) ==
    LET entry == EntryOf(master, net)
    IN IF entry = <<>> \/ entry[1].source.address = my.address
          \/ (entry[1].source.ibgp /\ my.ibgp)
       THEN {}
       ELSE LET a == update_attrs(my.ibgp, NetFamily(net) = "Ipv6Uc", my.local_as, net,
                                  entry[1].nexthop, my.local_addr, entry[1].attrs.entry)
            IN {[source |-> entry[1].source,
                 nexthop |-> IF my.ibgp THEN entry[1].nexthop ELSE my.local_addr,
                 pattrs |-> sort_by_key(a.v \o a.n)]}

\* the paths list_path returns for peer name and a destination, without
\* the best flag
Listed(name, net) ==
    LET r == list_path(NetFamily(net), name)
    IN IF net \in DOMAIN r
       THEN {[source |-> r[net][i].source, nexthop |-> r[net][i].nexthop,
              pattrs |-> r[net][i].pattrs] : i \in 1..Len(r[net])}
       ELSE {}

\* C25: list_path with the AdjOut view for peer P returns a path for a
\* destination only if that path is what P is advertised for it: not learned
\* from P, not IBGP-suppressed for P, and the destination's current best,
\* with the attributes update_attrs produces for P
C25_AdjOutIsAdvertised ==
    \A name \in DOMAIN active_peers : \A net \in Nets :
        Listed(name, net) \subseteq Announced(active_peers[name].source, net)

\* the part that holds: no listed path was learned from P or is an IBGP path
\* listed for an IBGP peer, and each has the attributes made for P
C25_AdjOutNotSuppressed ==
    \A name \in DOMAIN active_peers : \A net \in Nets : \A x \in Listed(name, net) :
        LET my == active_peers[name].source
        IN /\ x.source.address # name
           /\ ~(x.source.ibgp /\ my.ibgp)
           /\ \E p \in {EntryOf(master, net)[i] : i \in 1..Len(EntryOf(master, net))} :
                 LET a == update_attrs(my.ibgp, NetFamily(net) = "Ipv6Uc", my.local_as, net,
                                       p.nexthop, my.local_addr, p.attrs.entry)
                 IN x.source = p.source /\ x.pattrs = sort_by_key(a.v \o a.n)

\* C30: with best-path selection enabled, insert places the new path B
\* immediately before the first existing entry A that B strictly beats, B
\* beating A only if B is better at the first of LocalPref (higher), AS-path
\* length (shorter), Origin (lower), MED (lower) on which the two differ; B
\* is never placed before an entry that beats it on an earlier criterion,
\* and B is appended last if it beats no entry
C30_InsertBeforeFirstBeaten ==
    [][(last'.op = "insert" /\ ~disable_best_path_selection) =>
          LET old == EntryOf(master, last'.net)
              i == FirstSource(old, last'.source.address)
              existing == IF i # 0 THEN RemoveAt(old, i) ELSE old
              B == Path(last'.source, last'.nexthop, last'.attrs)
              beaten == {k \in 1..Len(existing) : Better(B, existing[k])}
              idx == IF beaten = {} THEN Len(existing) + 1 ELSE Min(beaten)
          IN EntryOf(master', last'.net) = InsertAt(existing, idx, B)]_vars

\* C27: the keepalive interval a session uses once the OPEN exchange is done
\* equals min(L, R) / 3 (integer division), L being the hold time configured
\* for the peer (Peer.hold_time) and R the hold time of the remote OPEN
C27_KeepaliveInterval ==
    [][\A s \in DOMAIN sessions' :
          (/\ last'.op = "recv" /\ last'.s = s /\ last'.msg.type = "Open"
           /\ sessions'[s].state = "OpenConfirm") =>
              LET L == peers'[sessions'[s].addr].hold_time
                  R == last'.msg.holdtime
              IN sessions'[s].keepalive_interval = (IF L < R THEN L ELSE R) \div 3]_vars

\* the same for the first OPEN a session receives, with the hold time of the
\* daemon's own OPEN, the constant OpenMessage::HOLDTIME, in the place of
\* Peer.hold_time
C27_KeepaliveIntervalOfOpen ==
    [][\A s \in DOMAIN sessions' :
          (/\ last'.op = "recv" /\ last'.s = s /\ last'.msg.type = "Open"
           /\ sessions[s].state = "OpenSent" /\ sessions'[s].state = "OpenConfirm") =>
              LET R == last'.msg.holdtime
              IN sessions'[s].keepalive_interval
                    = (IF HOLDTIME < R THEN HOLDTIME ELSE R) \div 3]_vars

Registered(s) ==
    sessions[s].state = "Established" /\ sessions[s].pc \in {"loop", "upd_withdraw", "upd_accept"}

\* the registration step of session s: the entry of active_peers names its
\* new, empty channel, and the peer has been written the current best path
\* of every destination of a family it negotiated
SnapshotTaken(s) ==
    (sessions[s].pc = "est_table" /\ sessions'[s].pc = "loop") =>
        /\ sessions[s].addr \in DOMAIN active_peers'
        /\ active_peers'[sessions[s].addr].tx = s
        /\ sessions'[s].rx = <<>>
        /\ master' = master
        /\ ~disable_best_path_selection =>
              \A n \in Nets :
                 (is_family_enabled(sessions[s], n) /\ EntryOf(master, n) # <<>>) =>
                     sessions'[s].written[n] =
                        [kind |-> "NewBest", nexthop |-> EntryOf(master, n)[1].nexthop,
                         attrs |-> EntryOf(master, n)[1].attrs]

\* the broadcasts of the step that are due to session s (s is not the
\* source of the update and not an IBGP peer of an IBGP source) are appended
\* to its channel
NothingMissing(s) ==
    \A i \in 1..Len(last'.bcast) :
        LET b == last'.bcast[i]
        IN (/\ sessions[s].addr # b.from.address
            /\ ~(b.from.ibgp /\ sessions[s].source.ibgp))
           => b.after[s] = Append(b.before[s], b.msg)

\* C32: when a session becomes Established its registration in active_peers
\* and the snapshot of the current best paths are taken in one RIB critical
\* section, the snapshot is written to the peer before any update broadcast
\* to its channel after the registration (the channel is empty when the
\* snapshot is written), and no mutation made after the registration is
\* missing from both: every update due to the session is put on its channel
\* for as long as its task runs
C32_SnapshotThenDeltas ==
    [][\A s \in DOMAIN sessions :
          /\ SnapshotTaken(s)
          /\ Registered(s) => NothingMissing(s)]_vars

\* the same for the sessions active_peers names
C32_SnapshotThenDeltasOfEntry ==
    [][\A s \in DOMAIN sessions :
          /\ SnapshotTaken(s)
          /\ (/\ Registered(s)
              /\ sessions[s].addr \in DOMAIN active_peers
              /\ active_peers[sessions[s].addr].tx = s) => NothingMissing(s)]_vars

\* the session tasks in their loop, in OpenSent, OpenConfirm or Established
Live == {s \in DOMAIN sessions :
            /\ sessions[s].pc \in {"loop", "est_table", "upd_withdraw", "upd_accept"}
            /\ sessions[s].state \in {"OpenSent", "OpenConfirm", "Established"}}

\* C36: at most one session task runs for a peer address at any time: a
\* connection for an address that has a running session spawns no second
\* task, so the teardown of one session never removes the active_peers
\* entry of another live session
C36_OneSessionPerAddress ==
    /\ \A s, t \in Live : sessions[s].addr = sessions[t].addr => s = t
    /\ \A s \in Live :
          (sessions[s].state = "Established" /\ sessions[s].pc # "est_table")
              => sessions[s].addr \in DOMAIN active_peers

C34_NewBestIsHead ==
    [][(last'.op \in {"insert", "remove"} /\ last'.update # <<>>
           /\ last'.update[1].kind = "NewBest")
        => LET head == EntryOf(master', last'.net)[1]
           IN last'.update = <<NewBest(last'.net, head.nexthop, head.attrs, head.source)>>]_vars

\* the parts of C34 the code keeps: the attributes and the source of every
\* NewBest are the head's, and the nexthop is too in every NewBest of remove
\* and of an insert whose path is the head after it
C34_NewBestIsHeadButNexthop ==
    [][(last'.op \in {"insert", "remove"} /\ last'.update # <<>>
           /\ last'.update[1].kind = "NewBest")
        => LET head == EntryOf(master', last'.net)[1]
               u == last'.update[1]
           IN /\ u.attrs = head.attrs /\ u.source = head.source
              /\ (last'.op = "remove" \/ head.source.address = last'.source.address)
                    => u.nexthop = head.nexthop]_vars

\* the paths of the table m that were not learned from the local source
LearnedPaths(m) ==
    UNION {{m[d[1]][d[2]][i] : i \in 1..Len(m[d[1]][d[2]])} : d \in Dests(m)}
        \ {p \in UNION {{m[d[1]][d[2]][i] : i \in 1..Len(m[d[1]][d[2]])} : d \in Dests(m)} :
               p.source.address = UNSPECIFIED}

\* C35: routes are accepted only from Established peers: in every reachable
\* state every RIB path whose source is not the local source has a
\* source.address that is a key of active_peers and a source.ibgp flag equal
\* to (peer.local_as = peer.remote_as); an UPDATE received in OpenSent or
\* OpenConfirm inserts nothing and broadcasts nothing
C35_RoutesFromEstablished ==
    /\ [](\A p \in LearnedPaths(master) :
             /\ p.source.address \in DOMAIN active_peers
             /\ p.source.address \in DOMAIN peers
             /\ p.source.ibgp = (peers[p.source.address].local_as =
                                   peers[p.source.address].remote_as))
    /\ [][(last'.op = "recv" /\ last'.msg.type = "Update"
             /\ sessions[last'.s].state \in {"OpenSent", "OpenConfirm"})
           => (master' = master /\ last'.bcast = <<>>)]_vars

\* what the code keeps of C35: the paths an UPDATE adds carry the Source the
\* session that received it holds at that moment, whatever the state of the
\* session
C35_PathsCarrySessionSource ==
    [][(last'.op = "recv" /\ last'.msg.type = "Update")
        => \A p \in LearnedPaths(master') \ LearnedPaths(master) :
              p.source = sessions[last'.s].source]_vars

\* C37: while a session task for an address is running, from its spawn until
\* its teardown has finished, the registry holds a Peer record for that
\* address: no interleaving of connections and teardowns, for a dynamic
\* neighbor either, removes the record under a running session
C37_RecordWhileRunning ==
    \A s \in Running : sessions[s].addr \in DOMAIN peers

\* what the code keeps of C37: a session task finds the Peer record of its
\* address as long as no other task of that address, spawned for a dynamic
\* neighbor, has finished its teardown
C37_RecordUnlessDynamicEnded ==
    \A s \in Running :
        \/ sessions[s].addr \in DOMAIN peers
        \/ \E o \in DOMAIN sessions \ {s} :
              /\ sessions[o].addr = sessions[s].addr
              /\ sessions[o].is_dynamic
              /\ sessions[o].pc = "done"

\* C38: a session never changes a peer's configured remote_as: a peer
\* configured with remote_as = 0 (accept any AS) still has remote_as = 0
\* after a session and its teardown, so that an OPEN with any AS is accepted
\* on every later session of that peer
C38_RemoteAsKept ==
    [][\A a \in DOMAIN peers \cap DOMAIN peers' :
          peers'[a].remote_as = peers[a].remote_as]_vars

\* what the code keeps of C38: a remote_as other than 0 is never changed, and
\* a peer with remote_as = 0 takes the AS of the OPEN it accepts
C38_RemoteAsKeptUnlessAny ==
    [][\A a \in DOMAIN peers \cap DOMAIN peers' :
          \/ peers'[a].remote_as = peers[a].remote_as
          \/ /\ peers[a].remote_as = 0
             /\ last'.op = "recv" /\ last'.msg.type = "Open"
             /\ sessions[last'.s].addr = a
             /\ peers'[a].remote_as = last'.msg.as]_vars

\* the consequence C38 draws fails with it: a peer that was configured with
\* remote_as = 0 never answers an OPEN with Bad Peer AS
C38_AnyAsOnLaterSessions ==
    \A s \in DOMAIN sessions :
        (sessions[s].addr = "192.0.2.1" /\ ~sessions[s].is_dynamic)
            => sessions[s].notif # "OpenMessageBadPeerAs"

\* C39: the keepalive interval used to reschedule the session timer is
\* always at least 1 second, for every hold time a remote OPEN can advertise
\* (0, 1 and 2 included)
C39_IntervalAtLeastOne ==
    \A s \in DOMAIN sessions : sessions[s].keepalive_interval >= 1

\* what the code keeps of C39: the interval is at least 1 second as long as
\* no OPEN with a hold time below 3 was received, and it never grows
C39_IntervalOfHoldTime ==
    [][\A s \in DOMAIN sessions :
          /\ sessions'[s].keepalive_interval <= sessions[s].keepalive_interval
          /\ sessions'[s].keepalive_interval < 1
                => \/ sessions[s].keepalive_interval < 1
                   \/ /\ last'.op = "recv" /\ last'.s = s /\ last'.msg.type = "Open"
                      /\ last'.msg.holdtime < 3]_vars

\* the list_path task waits for room on its response channel: it has a
\* response to send, the channel is full and the client has not gone
WaitingForRoom ==
    /\ list_task.pc = "send"
    /\ Len(list_task.tx) = ResponseCap
    /\ ~list_task.closed

\* C40: a control-API client that stops reading a list_path response stream
\* cannot block RIB mutations: the list_path task does not keep the RIB lock
\* while it waits for room on its bounded response channel
C40_NoLockWhileWaiting == WaitingForRoom => TableLockFree

\* what the code does instead: from the moment the task has built its
\* responses until its send loop is over, no step changes the RIB
C40_RibFrozenWhileSending ==
    [][list_task.pc = "send" => tableVars' = tableVars]_vars
====
